---- MODULE Spec2Model ----
(***************************************************************************)
(* State-machine model of the Windows process-loopback capture path:       *)
(*   WinAudioCapture (src/src/win/win_audio_capture.cpp), the session,     *)
(*   AudioTap        (src/src/win/audio_tap.cpp), the tap handle,          *)
(*   AudioCaptureAddon (src/src/audio_capture_addon.cc), the host bridge.  *)
(* Three thread roles act: the control thread (the caller of the public    *)
(* operations), the OS thread that delivers ActivateCompleted, and the     *)
(* capture thread.  The audio device and the OS are the environment.       *)
(***************************************************************************)
EXTENDS Integers, Sequences, FiniteSets, TLC

\* ---------------------------------------------------------------- bounds
\* Taps one run may create (StartCapture calls that get past the entry check).
MaxTaps == 2
\* Packets the device delivers to one capture.
MaxBuffers == 2
\* Thread-safe function handles the bridge may create in one run.
MaxTsfn == 2
\* The step, in milliseconds, by which the time spent in a wait advances.
TickMs == 5000

\* ---------------------------------------------------------------- inputs
\* What a caller of the core passes to StartCapture: a pid and the callback that
\* goes with it.
StartArgs == {<<1, "cbA">>, <<2, "cbB">>}
\* The pid the host bridge is given; it only forwards it to the core.
BridgePids == {1}
\* The capture lambda the bridge passes to the core (audio_capture_addon.cc:216).
BridgeLambda == "lambda"
\* The capture lambda of the bridge in addon_main.cc (addon_main.cc:203).
MainLambda == "main_lambda"
BridgeLambdas == {BridgeLambda, MainLambda}
PacketKinds == {"audio", "silent"}
\* The frame counts GetBuffer reports for a packet: none, the 10 ms of a 48 kHz
\* stream, and one frame more than 16 MB of stereo float samples hold.
FrameCounts == {0, 480, 2097153}
\* The packets the device hands out: sound of each frame count, and silence.
Packets ==
  {p \in [kind : PacketKinds, frames : FrameCounts] : p.kind = "silent" => p.frames = 480}
\* The sample word of a packet the running program captures: the bit pattern of
\* the float 1.0.  The float path copies the words unread, so one stands for all.
DeviceSamples == {1065353216}
\* Whether the lambda's copy of the buffer could be allocated
\* (audio_capture_addon.cc:232-238).
CopyOutcomes == {"ok", "bad_alloc"}
\* The timeout of the wait for activation (audio_tap.cpp:274), in milliseconds.
ActivateTimeoutMs == 10000
NoTap == 0
NoPid == 0
NoCallback == "null"
NoHandle == 0
\* WAVEFORMATEX as far as the normalizer and the callback read it; NullFormat is
\* the null mix_format_ pointer.
NullFormat ==
  [wFormatTag |-> "null", nChannels |-> 0, nSamplesPerSec |-> 0, wBitsPerSample |-> 0]
\* The format InitializeAudioClientInCallback writes into the block it allocates
\* (audio_tap.cpp:337-340).
RequestedFormat ==
  [wFormatTag |-> "IEEE_FLOAT", nChannels |-> 2, nSamplesPerSec |-> 48000,
   wBitsPerSample |-> 32]
\* No callback invocation is in progress on the bridge's lambda.
NoInvocation == [data |-> "none", length |-> 0, channels |-> 0, sampleRate |-> 0]
\* The largest buffer the bridge's lambda lets through (audio_capture_addon.cc:221).
MaxBytes == 16 * 1024 * 1024
\* The queue size the thread-safe function is created with
\* (audio_capture_addon.cc:211); 0 stands for a queue without limit.
MaxQueueSize == 0

\* The apartment the control thread is in when the session is constructed on
\* it: none, or the one its host has initialized.
HostApartments == {"none", "STA", "MTA"}

\* No call of GetProcessList is under way.
NoList ==
  [phase |-> "none", sessions |-> <<>>, procs |-> <<>>, processed_pids |-> {},
   granted |-> {}, all_processes |-> <<>>, self_pids |-> {}, result |-> <<>>]
\* No call of GetAudioObjectIDForPID is under way.
NoLookup ==
  [phase |-> "none", impl |-> "none", pid |-> 0, list |-> <<>>, pids |-> <<>>,
   processIDs |-> <<>>, result |-> 0]

\* The resources one AudioTap owns.
Resources ==
  {"audio_client", "capture_client", "capture_event", "activate_event", "mix_format"}

\* Failure paths of MakeAndInitialize / RuntimeClassInitialize.
MakeOutcomes == {"ok", "no_capture_event", "no_activate_event"}
\* Results of the system calls in the synchronous part of AudioTap::Initialize:
\* CoInitializeEx or MFStartup fails, or the ActivateAudioInterfaceAsync request
\* fails or is accepted.
InitOutcomes == {"com_fail", "mf_fail", "async_fail", "requested"}
\* The access rights CheckTargetProcessExists tries OpenProcess with, in order.
AccessLevels == {"query_limited", "query", "query_vm_read"}
\* What the system shows of the target pid: the access rights OpenProcess grants
\* on it, and whether the process snapshot cannot be taken, lists the pid or
\* omits it.
ProcessViews == [opens : SUBSET AccessLevels, snapshot : {"fails", "lists", "omits"}]
\* Outcomes of ActivateCompleted, one per return path.
ActivateOutcomes ==
  {"get_result_fail", "activation_fail", "query_fail", "alloc_fail", "client_init_fail",
   "buffer_size_fail", "get_service_fail", "set_event_fail", "ok"}
\* Results of GetBuffer in one pass of the drain loop.
GetBufferOutcomes == {"ok", "get_buffer_fail"}
\* Results of ReleaseBuffer and GetNextPacketSize, which end the pass.
DrainOutcomes == {"ok", "release_fail", "next_size_fail"}

VARIABLES
  \* WinAudioCapture
  alive, capturing_, callback_, current_pid_, process_capture_,
  \* the control thread: where it is inside a public call, the call and its result
  pc, lastOp, result, history, owner,
  \* the milliseconds the control thread has spent in the wait for activation
  waited,
  \* the AudioTap objects ever created
  taps, nTaps,
  \* the capture thread, the device's pending packets and buffer-ready event
  thread, queue, capSignal, produced, delivered,
  \* the bridge's globals
  g_ts_callback, tsfn, nTsfn,
  \* a second caller entering StartCapture while the first is inside it
  raced,
  \* the normalizer's static `warned` flag and the warnings written so far
  warned, warnings,
  \* the calls queued on the thread-safe function for the JavaScript thread, and
  \* the arguments of a callback invocation made on the bridge's lambda
  jsQueue, invocation,
  \* WinAudioCapture::initialized_, and COM on the control thread: the apartment
  \* the thread is in, its initialization count, and the calls of CoInitializeEx
  \* that succeeded and of CoUninitialize the program has made on it
  initialized_, com,
  \* a call of process_manager::GetProcessList: the sessions still to go through,
  \* what the system shows of each process, and what the call has gathered
  pl,
  \* a call of GetAudioObjectIDForPID: the audio process objects still to go
  \* through, the pid each of them reports, and the result
  ao

sessionVars == <<alive, capturing_, callback_, current_pid_, process_capture_>>
callVars == <<pc, lastOp, result, history, owner, waited>>
tapVars == <<taps, nTaps>>
threadVars == <<thread, queue, capSignal, produced, delivered>>
bridgeVars == <<g_ts_callback, tsfn, nTsfn>>
dataVars == <<warned, warnings, jsQueue, invocation>>
comVars == <<initialized_, com>>
utilVars == <<pl, ao>>
vars == <<sessionVars, callVars, tapVars, threadVars, bridgeVars, raced, dataVars, comVars, utilVars>>

\* --------------------------------------------------- COM on the control thread
\* A thread COM has not been initialized on.
NoCom == [mode |-> "none", count |-> 0, inits |-> 0, uninits |-> 0]

\* The control thread as its host left it: in apartment `host`, initialized once
\* by the host if it is in one.
HostCom(host) ==
  IF host = "none" THEN NoCom ELSE [NoCom EXCEPT !.mode = host, !.count = 1]

\* The HRESULT of CoInitializeEx(nullptr, mode) on a thread in state c, when the
\* call does not fail for want of resources: S_OK on a thread not initialized,
\* S_FALSE on one in the same apartment, RPC_E_CHANGED_MODE on one in another.
CoInitializeResult(c, mode) ==
  IF c.count = 0 THEN "S_OK"
  ELSE IF c.mode = mode THEN "S_FALSE"
  ELSE "RPC_E_CHANGED_MODE"

\* The HRESULT stands for a successful initialization, one CoUninitialize answers.
Succeeded(hr) == hr \in {"S_OK", "S_FALSE"}

\* The thread after CoInitializeEx(nullptr, mode) (audio_tap.cpp:72,
\* win_utils.cpp:928).
CoInitializeEx(c, mode) ==
  IF Succeeded(CoInitializeResult(c, mode))
  THEN [c EXCEPT !.mode = mode, !.count = @ + 1, !.inits = @ + 1]
  ELSE c

\* The thread after CoUninitialize() (audio_tap.cpp:155, win_utils.cpp:933): one
\* initialization is taken back, the host's if the program has none left.
CoUninitialize(c) ==
  [c EXCEPT !.count = IF @ > 0 THEN @ - 1 ELSE 0,
            !.mode = IF c.count <= 1 THEN "none" ELSE @,
            !.uninits = @ + 1]

\* n calls of CoUninitialize.
RECURSIVE Uninitialized(_, _)
Uninitialized(c, n) == IF n = 0 THEN c ELSE Uninitialized(CoUninitialize(c), n - 1)

\* win_utils::InitializeCOM (win_utils.cpp:927-931): CoInitializeEx for the
\* multithreaded apartment; true if it succeeded.
InitializeCOM(c) == Succeeded(CoInitializeResult(c, "MTA"))

\* WinAudioCapture::WinAudioCapture, Initialize (win_audio_capture.cpp:22-49) on a
\* control thread in apartment `host`: initialized_ is set if InitializeCOM
\* returned true.
Constructed(host) ==
  /\ initialized_ = InitializeCOM(HostCom(host))
  /\ com = CoInitializeEx(HostCom(host), "MTA")

\* WinAudioCapture::Cleanup (win_audio_capture.cpp:51-56) on thread state c.
SessionCleanup(c) == IF initialized_ THEN CoUninitialize(c) ELSE c

\* ------------------------------------------------------------- AudioTap
ZeroCount == [r \in Resources |-> 0]

\* A slot of the tap table no AudioTap has been constructed in yet.
Unborn ==
  [state |-> "unborn", refs |-> 0, target_pid_ |-> NoPid,
   is_capturing_ |-> FALSE, stop_capture_ |-> FALSE, error_message_ |-> "",
   callback_ |-> NoCallback, audio_client_ |-> "null", capture_client_ |-> FALSE,
   capture_event_ |-> FALSE, activate_completed_event_ |-> FALSE,
   activate_signaled |-> FALSE, mix_format_ |-> NullFormat, activate_result_ |-> "E_FAIL",
   activation |-> "none", completed_as |-> "none", failure |-> "none",
   timed_out |-> FALSE, co_init |-> "none", mf_started |-> FALSE,
   acq |-> ZeroCount, rel |-> ZeroCount]

\* A tap that starts out with the completion signal and the result of an earlier
\* activation.
TapWithLeftovers(pid, outcome) ==
  [Unborn EXCEPT
     !.state = "live", !.refs = 1, !.target_pid_ = pid,
     !.capture_event_ = TRUE, !.activate_completed_event_ = TRUE,
     !.activate_signaled = TRUE, !.activate_result_ = "S_OK",
     !.acq = [ZeroCount EXCEPT !["capture_event"] = 1, !["activate_event"] = 1]]

\* AudioTap::AudioTap followed by RuntimeClassInitialize(pid): both events are
\* requested; outcome names the CreateEvent that failed, if any.
NewTap(pid, outcome) ==
  [Unborn EXCEPT
     !.state = "live", !.refs = 1, !.target_pid_ = pid,
     !.capture_event_ = (outcome # "no_capture_event"),
     !.activate_completed_event_ = (outcome # "no_activate_event"),
     !.acq = [ZeroCount EXCEPT
                !["capture_event"] = IF outcome # "no_capture_event" THEN 1 ELSE 0,
                !["activate_event"] = IF outcome # "no_activate_event" THEN 1 ELSE 0]]

\* AudioTap::SetError
SetError(tap, message) == [tap EXCEPT !.error_message_ = message]

\* AudioTap::Cleanup: the COM interfaces are reset, each held one released once.
Cleanup(tap) ==
  [tap EXCEPT
     !.capture_client_ = FALSE,
     !.audio_client_ = "null",
     !.rel = [tap.rel EXCEPT
                !["capture_client"] = @ + (IF tap.capture_client_ THEN 1 ELSE 0),
                !["audio_client"] = @ + (IF tap.audio_client_ # "null" THEN 1 ELSE 0)]]

\* The taps whose destructor, and with it AudioTap::Cleanup, has run between two
\* states of the tap table: Cleanup ends with MFShutdown() and CoUninitialize()
\* (audio_tap.cpp:154-155), whatever Initialize has done.
CleanupsRun(before, after) ==
  Cardinality({t \in DOMAIN before :
                 before[t].state # "destroyed" /\ after[t].state = "destroyed"})

\* The release record of a destroyed object: each acquisition that one release
\* answered is settled, so what is left in acq is leaked and what is left in rel
\* was released without being held.
Settled(count, other) ==
  [r \in Resources |-> IF count[r] > other[r] THEN count[r] - other[r] ELSE 0]

\* AudioTap::~AudioTap: Stop (returns at once unless capturing), Cleanup, then the
\* two event handles are closed and the format block freed, each if non-null.
\* What is left of the object is its release record, and the activation request
\* if its completion is still to come.
Destructor(tap) ==
  LET c == Cleanup([tap EXCEPT !.is_capturing_ = FALSE,
                               !.stop_capture_ = tap.stop_capture_ \/ tap.is_capturing_])
      released ==
        [c.rel EXCEPT
           !["capture_event"] = @ + (IF c.capture_event_ THEN 1 ELSE 0),
           !["activate_event"] = @ + (IF c.activate_completed_event_ THEN 1 ELSE 0),
           !["mix_format"] = @ + (IF c.mix_format_ # NullFormat THEN 1 ELSE 0)]
  IN [Unborn EXCEPT
        !.state = "destroyed",
        !.activation = IF tap.activation = "pending" THEN "pending" ELSE "none",
        !.acq = Settled(tap.acq, released),
        !.rel = Settled(released, tap.acq)]

\* IUnknown::Release on tap t: the reference count drops, and at zero the
\* destructor runs.
ReleaseRef(tps, t) ==
  IF t = NoTap \/ tps[t].state # "live" THEN tps
  ELSE IF tps[t].refs > 1 THEN [tps EXCEPT ![t].refs = @ - 1]
  ELSE [tps EXCEPT ![t] = Destructor(tps[t])]

\* An AudioTap the session no longer points to is reachable through the OS's
\* reference alone: no thread reads its fields again, and all that can still
\* happen to it is a late ActivateCompleted and the destructor.  Of such an
\* object the model keeps what those two act on.
Orphan(tap) ==
  [tap EXCEPT !.target_pid_ = NoPid, !.error_message_ = "", !.callback_ = NoCallback,
              !.activate_result_ = "E_FAIL", !.activate_signaled = FALSE,
              !.completed_as = "none", !.failure = "none"]

\* The session gives up its reference to tap t: process_capture_.Reset(), a move
\* into process_capture_, or the destruction of the member.
DropTap(tps, t) ==
  LET after == ReleaseRef(tps, t)
  IN IF t # NoTap /\ after[t].state = "live"
     THEN [after EXCEPT ![t] = Orphan(@)]
     ELSE after

\* ------------------------------------------------------------------ Init
NoThread == [pc |-> "none", tap |-> NoTap]

\* A session just constructed, but for COM.
NewSession ==
  /\ alive = TRUE
  /\ capturing_ = FALSE
  /\ callback_ = NoCallback
  /\ current_pid_ = NoPid
  /\ process_capture_ = NoTap
  /\ pc = "idle"
  /\ lastOp = "none"
  /\ result = "none"
  /\ history = "none"
  /\ owner = NoCallback
  /\ waited = 0
  /\ taps = [t \in 1..MaxTaps |-> Unborn]
  /\ nTaps = 0
  /\ thread = NoThread
  /\ queue = <<>>
  /\ capSignal = FALSE
  /\ produced = 0
  /\ delivered = <<>>
  /\ g_ts_callback = NoHandle
  /\ tsfn = [h \in 1..MaxTsfn |-> "none"]
  /\ nTsfn = 0
  /\ raced = FALSE
  /\ warned = FALSE
  /\ warnings = 0
  /\ jsQueue = <<>>
  /\ invocation = NoInvocation

\* The session is constructed on a thread COM was not initialized on.
Init == NewSession /\ Constructed("none") /\ pl = NoList /\ ao = NoLookup

\* The session is constructed on a thread in any apartment.
ComInit == NewSession /\ pl = NoList /\ ao = NoLookup /\ \E h \in HostApartments : Constructed(h)

\* ------------------------------------------------- WinAudioCapture::StartCapture
\* The control thread is at place p of a public call (or between calls: "idle").
At(p) == ~raced /\ alive /\ pc = p

\* An entry check that lets every call through: with it in place of StartRejected
\* a StartCapture on a capturing session goes on to replace the capture.
StartNeverRejected == FALSE

\* win_audio_capture.cpp:59, the entry check of StartCapture.
StartRejected == capturing_

\* A public call returns r to its caller.
Return(op, r) ==
  /\ pc' = "idle"
  /\ lastOp' = op
  /\ result' = r

\* StartCapture from its entry check to the call of AudioTap::Initialize
\* (win_audio_capture.cpp:59-73).  A failed MakeAndInitialize destroys the object
\* it made and leaves process_capture_ as it was; otherwise the new tap is moved
\* into process_capture_, which releases the tap it held.
StartCaptureBody(op, pid, cb, outcome) ==
  IF StartRejected
  THEN /\ Return(op, "false")
       /\ UNCHANGED <<sessionVars, history, owner, tapVars, comVars>>
  ELSE /\ nTaps < MaxTaps
       /\ callback_' = cb
       /\ current_pid_' = pid
       /\ nTaps' = nTaps + 1
       /\ history' = "none"
       /\ UNCHANGED <<alive, capturing_, owner>>
       /\ IF outcome # "ok"
          THEN /\ taps' = [taps EXCEPT ![nTaps + 1] = Destructor(NewTap(pid, outcome))]
               /\ process_capture_' = process_capture_
               /\ Return(op, "false")
          ELSE /\ taps' = DropTap([taps EXCEPT ![nTaps + 1] = NewTap(pid, outcome)],
                                  process_capture_)
               /\ process_capture_' = nTaps + 1
               /\ pc' = "sc_initialize"
               /\ lastOp' = op
               /\ result' = "pending"
       /\ com' = Uninitialized(com, CleanupsRun(taps, taps'))
       /\ initialized_' = initialized_

StartCapture(pid, cb, outcome) ==
  /\ At("idle")
  /\ StartCaptureBody("start", pid, cb, outcome)
  /\ UNCHANGED <<waited, threadVars, bridgeVars, raced, dataVars, utilVars>>

\* The message each failure path hands to SetError; "" where the path sets none.
ErrorFor(path) ==
  CASE path = "com_fail" -> "Failed to initialize COM"
    [] path = "mf_fail" -> "Failed to initialize Media Foundation"
    [] path = "no_process" -> "Target process does not exist or cannot be accessed"
    [] path = "async_fail" -> "Failed to activate audio interface async"
    [] path = "timeout" -> "Timeout waiting for audio interface activation"
    [] path = "activation_fail" -> "Audio interface activation failed"
    [] path = "query_fail" -> "Failed to get IAudioClient interface"
    [] path = "client_init_fail" -> "Audio client initialization failed"
    [] path = "not_initialized" -> "Audio client not initialized"
    [] path = "client_start_fail" -> "Failed to start audio client"
    [] OTHER -> ""

\* An activation request that takes no reference to its completion handler.
HandlerNotReferenced(tap) == tap

\* ActivateAudioInterfaceAsync(..., this, &async_op) (audio_tap.cpp:262-264): the
\* OS takes a reference to the tap, its completion handler, and holds it until
\* the completion has been delivered.
HandlerAddRef(tap) == [tap EXCEPT !.refs = @ + 1]

\* A failure path of AudioTap reports its error, if it reports one.
Report(tap, path) ==
  IF ErrorFor(path) = "" THEN tap ELSE SetError(tap, ErrorFor(path))

\* AudioTap::Initialize or AudioTap::Start returns false along `path`, and with it
\* StartCapture (win_audio_capture.cpp:76-78): the tap stays in process_capture_.
FailStart(tap, path) ==
  /\ taps' = [taps EXCEPT ![process_capture_] = [tap EXCEPT !.failure = path]]
  /\ Return(lastOp, "false")
  /\ waited' = 0
  /\ UNCHANGED <<sessionVars, history, owner, nTaps, threadVars, bridgeVars, raced, dataVars, utilVars>>

\* A process check that finds every pid.
ProcessAlwaysExists(view) == TRUE

\* AudioTap::CheckTargetProcessExists (audio_tap.cpp:164-222): true if OpenProcess
\* succeeds with one of the access rights, else if the snapshot can be taken and
\* lists the pid.
CheckTargetProcessExists(view) ==
  IF \E a \in AccessLevels : a \in view.opens THEN TRUE
  ELSE IF view.snapshot = "fails" THEN FALSE
  ELSE view.snapshot = "lists"

\* The return path of the synchronous part of AudioTap::Initialize: COM, then
\* Media Foundation, then the process check, then the activation request.
InitializePath(outcome, view) ==
  IF outcome \in {"com_fail", "mf_fail"} THEN outcome
  ELSE IF ~CheckTargetProcessExists(view) THEN "no_process"
  ELSE outcome

\* What CoInitializeEx(nullptr, COINIT_APARTMENTTHREADED) returns to
\* AudioTap::Initialize (audio_tap.cpp:72) on thread state c.
TapCoInitializeResult(outcome, c) ==
  IF outcome = "com_fail" THEN "E_FAIL" ELSE CoInitializeResult(c, "STA")

\* The head of AudioTap::Initialize (audio_tap.cpp:72-92): the tap has called
\* CoInitializeEx, and MFStartup if it got that far.
TapComStarted(tap, outcome, c) ==
  [tap EXCEPT !.co_init = TapCoInitializeResult(outcome, c),
              !.mf_started = (outcome \notin {"com_fail", "mf_fail"})]

\* AudioTap::Initialize up to the wait: CoInitializeEx, MFStartup,
\* CheckTargetProcessExists and the ActivateAudioInterfaceAsync request, which
\* hands the OS a reference to the tap as completion handler.
TapInitialize(outcome, view) ==
  /\ At("sc_initialize")
  /\ com' = IF outcome = "com_fail" THEN com ELSE CoInitializeEx(com, "STA")
  /\ initialized_' = initialized_
  /\ LET tap == TapComStarted(taps[process_capture_], outcome, com)
         path == InitializePath(outcome, view) IN
     IF path # "requested"
     THEN FailStart(Report(tap, path), path)
     ELSE /\ taps' = [taps EXCEPT ![process_capture_] =
                        [HandlerAddRef(tap) EXCEPT !.activation = "pending"]]
          /\ pc' = "sc_wait"
          /\ waited' = 0
          /\ UNCHANGED <<sessionVars, lastOp, result, history, owner, nTaps, threadVars,
                         bridgeVars, raced, dataVars, utilVars>>

\* AudioTap::InitializeAudioClientInCallback, by the call that fails (or none).
InitializeAudioClientInCallback(tap, outcome) ==
  LET formatted ==
        [tap EXCEPT !.mix_format_ = IF outcome # "alloc_fail" THEN RequestedFormat
                                     ELSE NullFormat,
                    !.rel["mix_format"] = @ + (IF tap.mix_format_ # NullFormat THEN 1 ELSE 0),
                    !.acq["mix_format"] = @ + (IF outcome # "alloc_fail" THEN 1 ELSE 0)]
      initialized == [formatted EXCEPT !.audio_client_ = "initialized"]
      serviced == [initialized EXCEPT !.capture_client_ = TRUE,
                                      !.acq["capture_client"] = @ + 1]
  IN CASE outcome = "alloc_fail" -> [formatted EXCEPT !.activate_result_ = "FAILED"]
       [] outcome = "client_init_fail" ->
            [Report(formatted, outcome) EXCEPT !.activate_result_ = "FAILED"]
       [] outcome \in {"buffer_size_fail", "get_service_fail"} ->
            [initialized EXCEPT !.activate_result_ = "FAILED"]
       [] outcome = "set_event_fail" -> [serviced EXCEPT !.activate_result_ = "FAILED"]
       [] OTHER -> [serviced EXCEPT !.activate_result_ = "S_OK"]

\* The OS drops its reference to the completion handler once the callback has
\* returned: on the thread that ran the callback, as the next thing that thread
\* does with the tap.
OsRelease(tps, t) == ReleaseRef([tps EXCEPT ![t].activation = "released"], t)

\* AudioTap::ActivateCompleted, run by the OS on a thread of its own once for an
\* issued activation request; every path ends by setting the completion event.
\* The OS then lets go of the handler.
ActivateCompleted(t, outcome) ==
  /\ ~raced
  /\ taps[t].state = "live"
  /\ taps[t].activation = "pending"
  /\ LET tap == taps[t]
         failed == [Report(tap, outcome) EXCEPT !.activate_result_ = "FAILED"]
         client == [tap EXCEPT !.audio_client_ = "obtained", !.acq["audio_client"] = @ + 1]
         after == IF outcome \in {"get_result_fail", "activation_fail", "query_fail"}
                  THEN failed
                  ELSE InitializeAudioClientInCallback(client, outcome)
         done == [after EXCEPT !.activation = "completed", !.completed_as = outcome,
                               !.activate_signaled = TRUE]
     IN taps' = OsRelease([taps EXCEPT ![t] = IF t = process_capture_ THEN done
                                              ELSE Orphan(done)], t)
  /\ UNCHANGED <<sessionVars, callVars, nTaps, threadVars, bridgeVars, raced, dataVars, comVars, utilVars>>

\* Time passes while the control thread is blocked in WaitForSingleObject on
\* activate_completed_event_ (audio_tap.cpp:274).
WaitTick ==
  /\ At("sc_wait")
  /\ ~taps[process_capture_].activate_signaled
  /\ waited < ActivateTimeoutMs
  /\ waited' = waited + TickMs
  /\ UNCHANGED <<sessionVars, pc, lastOp, result, history, owner, tapVars, threadVars,
                 bridgeVars, raced, dataVars, comVars, utilVars>>

\* A wait that gives up without waiting.
TimeoutAtOnce == TRUE

\* WaitForSingleObject(activate_completed_event_, 10000) has run out of time.
TimeoutElapsed == waited >= ActivateTimeoutMs

\* The wait on activate_completed_event_ ends without the event (audio_tap.cpp:275).
ActivationTimeout ==
  /\ At("sc_wait")
  /\ TimeoutElapsed
  /\ ~taps[process_capture_].activate_signaled
  /\ FailStart([Report(taps[process_capture_], "timeout") EXCEPT !.timed_out = TRUE],
               "timeout")
  /\ UNCHANGED comVars

\* The JavaScript function behind thread-safe function handle h: each
\* startCapture call brings a function of its own, named by the handle made for it.
JsFunction(h) == h

\* The callee of a callback invocation: the callback itself, or for the bridge's
\* lambda the JavaScript function behind g_ts_callback at the time of the call
\* (audio_capture_addon.cc:278).
CallbackTarget(cb) ==
  IF cb \notin BridgeLambdas THEN cb
  ELSE IF g_ts_callback = NoHandle THEN "empty"
  ELSE IF tsfn[g_ts_callback] # "acquired" THEN "released"
  ELSE JsFunction(g_ts_callback)

\* AudioTap::Start after a successful Initialize (audio_tap.cpp:97-123).
TapStart(tap, cb, outcome) ==
  IF tap.is_capturing_ THEN tap
  ELSE IF tap.audio_client_ = "null" \/ ~tap.capture_client_
       THEN Report(tap, "not_initialized")
  ELSE IF outcome # "ok"
       THEN Report([tap EXCEPT !.callback_ = cb], outcome)
  ELSE [tap EXCEPT !.callback_ = cb, !.audio_client_ = "running",
                   !.is_capturing_ = TRUE, !.stop_capture_ = FALSE]

\* A Start that spawns no thread.
NoSpawn(t) == [pc |-> "none", tap |-> NoTap]

\* The capture thread AudioTap::Start spawns (audio_tap.cpp:120).
SpawnThread(t) == [pc |-> "loop", tap |-> t]

\* The wait ends with the event set (auto-reset): Initialize returns
\* SUCCEEDED(activate_result_), and on true StartCapture calls AudioTap::Start.
ActivationSignaled(outcome) ==
  /\ At("sc_wait")
  /\ taps[process_capture_].activate_signaled
  /\ LET tap == [taps[process_capture_] EXCEPT !.activate_signaled = FALSE]
         started == TapStart(tap, callback_, outcome)
     IN IF tap.activate_result_ # "S_OK"
        THEN FailStart(tap, tap.completed_as) /\ UNCHANGED comVars
        ELSE IF ~started.is_capturing_
        THEN /\ FailStart(started, IF outcome # "ok" THEN outcome ELSE "not_initialized")
             /\ UNCHANGED comVars
        ELSE /\ taps' = [taps EXCEPT ![process_capture_] = started]
             /\ thread' = SpawnThread(process_capture_)
             /\ queue' = <<>>
             /\ capSignal' = FALSE
             /\ pc' = "sc_mark"
             /\ waited' = 0
             /\ owner' = CallbackTarget(callback_)
             /\ UNCHANGED <<sessionVars, lastOp, result, history, nTaps, produced,
                            delivered, bridgeVars, raced, dataVars, comVars, utilVars>>

\* A StartCapture that returns true without marking the session.
LeftUnmarked == FALSE

\* capturing_ = true (win_audio_capture.cpp:80)
MarkedCapturing == TRUE

\* win_audio_capture.cpp:80-81
StartCaptureReturn ==
  /\ At("sc_mark")
  /\ capturing_' = MarkedCapturing
  /\ history' = "started"
  /\ Return(lastOp, "true")
  /\ UNCHANGED <<owner, waited, alive, callback_, current_pid_, process_capture_, tapVars, threadVars,
                 bridgeVars, raced, dataVars, comVars, utilVars>>

\* -------------------------------------------------- WinAudioCapture::IsCapturing
\* WinAudioCapture::IsCapturing() const (win_audio_capture.h:44).  The header
\* declares it; its body is not in win_audio_capture.cpp, and it is taken here
\* as the specification describes it: the non-blocking query of the session's
\* capturing state.
SessionIsCapturing == capturing_

\* A caller asks the session whether it is capturing.
IsCapturingBody(op) ==
  /\ Return(op, IF SessionIsCapturing THEN "true" ELSE "false")
  /\ UNCHANGED <<sessionVars, history, owner, waited, tapVars, threadVars, bridgeVars, raced,
                 dataVars, comVars, utilVars>>

IsCapturing ==
  /\ At("idle")
  /\ IsCapturingBody("is_capturing")

\* -------------------------------------------------- WinAudioCapture::StopCapture
\* An entry check that lets every call through: with it in place of StopRejected
\* a StopCapture on an idle session runs the whole stop sequence.
StopNeverRejected == FALSE

\* win_audio_capture.cpp:85, the entry check of StopCapture.
StopRejected == ~capturing_

\* StopCapture up to the call of AudioTap::Stop (win_audio_capture.cpp:85-89).
StopCaptureEnter(op) ==
  /\ capturing_' = FALSE
  /\ pc' = "stop_signal"
  /\ lastOp' = op
  /\ result' = "pending"
  /\ UNCHANGED <<alive, callback_, current_pid_, process_capture_>>

\* What the caller knows when it calls StopCapture or destroys the session: that
\* this is the stop of a capture whose StartCapture returned true, or that it is
\* not.
StopCalled ==
  /\ history' = IF history = "started" THEN "stopping" ELSE "none"
  /\ owner' = owner
  /\ waited' = waited

StopCapture ==
  /\ At("idle")
  /\ StopCalled
  /\ IF StopRejected
     THEN Return("stop", "false") /\ UNCHANGED sessionVars
     ELSE StopCaptureEnter("stop")
  /\ UNCHANGED <<tapVars, threadVars, bridgeVars, raced, dataVars, comVars, utilVars>>

\* AudioTap::Stop up to the join (audio_tap.cpp:126-131).
TapStopSignal(tap) ==
  IF ~tap.is_capturing_ THEN tap
  ELSE [tap EXCEPT !.is_capturing_ = FALSE, !.stop_capture_ = TRUE]

StopSignal ==
  /\ At("stop_signal")
  /\ taps' = IF process_capture_ = NoTap THEN taps
             ELSE [taps EXCEPT ![process_capture_] = TapStopSignal(@)]
  /\ pc' = "stop_join"
  /\ UNCHANGED <<sessionVars, lastOp, result, history, owner, waited, nTaps, threadVars,
                 bridgeVars, raced, dataVars, comVars, utilVars>>

\* A join that does not wait: with it in place of JoinReady, AudioTap::Stop goes
\* on while the capture thread still runs.
JoinWithoutWaiting == TRUE

\* capture_thread_.join() returns (audio_tap.cpp:134-136): at once if there is no
\* thread to join, else when the thread function has returned.
JoinReady == thread.pc \in {"none", "exited"}

\* AudioTap::Stop after the join (audio_tap.cpp:139-141).
TapStopClient(tap) ==
  IF tap.audio_client_ = "null" THEN tap ELSE [tap EXCEPT !.audio_client_ = "stopped"]

\* A reset that forgets the pointer without releasing the reference: with it in
\* place of ResetTap the tap outlives the capture.
ResetWithoutRelease(tps, t) == tps

\* process_capture_.Reset() (win_audio_capture.cpp:94): the session's reference
\* to tap t is released.
ResetTap(tps, t) == DropTap(tps, t)

\* napi_release_threadsafe_function on a handle in state st: the one reference
\* an acquired handle holds is given up; a handle given up before is released
\* without being held.
Released(st) == IF st = "acquired" THEN "released" ELSE "over_released"

\* Napi::ThreadSafeFunction::Release on the bridge's global handle, guarded by
\* `if (g_ts_callback)` (audio_capture_addon.cc:293-295).  Release is a const
\* method: the handle stays non-empty after it.
ReleaseCallback(ts) ==
  IF g_ts_callback = NoHandle THEN ts
  ELSE [ts EXCEPT ![g_ts_callback] = Released(@)]

\* The rest of StopCapture once the capture thread is joined: the client is
\* stopped, the tap released, CleanupCapture run (win_audio_capture.cpp:92-98).
\* The stopped client's packets and the record of the callbacks made for this
\* capture end with it.
\* Then the caller goes on: the bridge releases its thread-safe function, the
\* session destructor runs Cleanup and destroys the members.
StopJoin ==
  /\ At("stop_join")
  /\ JoinReady
  /\ thread' = IF thread.pc = "exited" THEN NoThread ELSE thread
  /\ owner' = NoCallback
  /\ queue' = <<>>
  /\ capSignal' = FALSE
  /\ taps' = IF process_capture_ = NoTap THEN taps
             ELSE ResetTap([taps EXCEPT ![process_capture_] = TapStopClient(@)],
                           process_capture_)
  /\ process_capture_' = NoTap
  /\ callback_' = NoCallback
  /\ current_pid_' = NoPid
  /\ alive' = (lastOp # "destroy")
  /\ tsfn' = IF lastOp = "js_stop" THEN ReleaseCallback(tsfn) ELSE tsfn
  /\ Return(lastOp, IF lastOp = "destroy" THEN "none" ELSE "true")
  /\ produced' = 0
  /\ delivered' = <<>>
  /\ com' = LET c == Uninitialized(com, CleanupsRun(taps, taps'))
             IN IF lastOp = "destroy" THEN SessionCleanup(c) ELSE c
  /\ initialized_' = (initialized_ /\ lastOp # "destroy")
  /\ UNCHANGED <<capturing_, history, waited, nTaps, g_ts_callback, nTsfn, raced, dataVars, utilVars>>

\* WinAudioCapture::~WinAudioCapture (win_audio_capture.cpp:30-35): StopCapture if
\* capturing, Cleanup, then the members are destroyed, process_capture_ among them.
DestroySession ==
  /\ At("idle")
  /\ StopCalled
  /\ IF capturing_
     THEN StopCaptureEnter("destroy") /\ UNCHANGED <<taps, comVars>>
     ELSE /\ alive' = FALSE
          /\ taps' = DropTap(taps, process_capture_)
          /\ process_capture_' = NoTap
          /\ callback_' = NoCallback
          /\ current_pid_' = NoPid
          /\ Return("destroy", "none")
          /\ com' = Uninitialized(SessionCleanup(com), CleanupsRun(taps, taps'))
          /\ initialized_' = FALSE
          /\ UNCHANGED capturing_
  /\ UNCHANGED <<nTaps, threadVars, bridgeVars, raced, dataVars, utilVars>>

\* --------------------------------------------------------- the capture thread
\* The tap whose capture thread is running.
ThreadTap == taps[thread.tap]

\* ----------------------------------------------------------- the normalizer
\* A float is written as a mantissa m and an exponent e, for the value m * 2^e
\* with |m| < 2^24; kind "bits" is the float whose bit pattern is the word m,
\* which is what a memcpy of a sample word leaves in the float buffer.
RECURSIVE Pow2(_)
Pow2(n) == IF n = 0 THEN 1 ELSE 2 * Pow2(n - 1)

Abs(i) == IF i < 0 THEN -i ELSE i

\* static_cast<float>(i) for an integer sample i: the nearest float, ties to even.
IntToFloat(i) ==
  LET a == Abs(i)
      k == CHOOSE n \in 0..7 :
             /\ a \div Pow2(n) < 16777216
             /\ (n = 0 \/ a \div Pow2(n - 1) >= 16777216)
      q == a \div Pow2(k)
      r == a % Pow2(k)
      half == IF k = 0 THEN 0 ELSE Pow2(k - 1)
      up == k > 0 /\ (r > half \/ (r = half /\ q % 2 = 1))
      m == IF up THEN q + 1 ELSE q
      sgn == IF i < 0 THEN -1 ELSE 1
  IN IF m = 16777216
     THEN [kind |-> "value", m |-> sgn * 8388608, e |-> k + 1]
     ELSE [kind |-> "value", m |-> sgn * m, e |-> k]

\* f / 2^n in float arithmetic: exact, the exponent drops by n.
DivPow2(f, n) == [f EXCEPT !.e = @ - n]

\* The float a memcpy of the sample word w puts into the float buffer.
Reinterpret(w) == [kind |-> "bits", m |-> w, e |-> 0]

\* The branch of the normalizer the format takes (audio_tap.cpp:442-461).
Branch(fmt) ==
  IF fmt.wFormatTag = "IEEE_FLOAT" /\ fmt.wBitsPerSample = 32 THEN "float"
  ELSE IF fmt.wFormatTag = "PCM" /\ fmt.wBitsPerSample = 16 THEN "pcm16"
  ELSE IF fmt.wFormatTag = "PCM" /\ fmt.wBitsPerSample = 32 THEN "pcm32"
  ELSE "other"

\* A 16-bit conversion that divides by 65536.
HalvedPcm16(sample) == DivPow2(IntToFloat(sample), 16)

\* static_cast<float>(int_samples[i]) / 32768.0f (audio_tap.cpp:452)
NormalizePcm16(sample) == DivPow2(IntToFloat(sample), 15)

\* static_cast<float>(int_samples[i]) / 2147483648.0f (audio_tap.cpp:459)
NormalizePcm32(sample) == DivPow2(IntToFloat(sample), 31)

\* What the normalizer writes into float_buffer for a sample of the device's
\* buffer (audio_tap.cpp:442-472).
Normalize(fmt, sample) ==
  CASE Branch(fmt) = "pcm16" -> NormalizePcm16(sample)
    [] Branch(fmt) = "pcm32" -> NormalizePcm32(sample)
    [] OTHER -> Reinterpret(sample)

\* A normalizer that warns of every buffer of an unexpected format.
WarnsEveryTime(fmt, w) == Branch(fmt) = "other"

\* The normalizer writes its warning: the format is none it expects and the
\* static flag is not set yet (audio_tap.cpp:462-469).
Warns(fmt, w) == Branch(fmt) = "other" /\ ~w

\* A buffer size of two bytes a sample.
HalfDataSize(frames, fmt) == frames * fmt.nChannels * 2

\* float_data_size (audio_tap.cpp:432-433): sample_count * sizeof(float), with
\* sample_count = frames * nChannels.  For the frame counts the device reports
\* here the products stay below 2^31, where UINT32 arithmetic is exact.
FloatDataSize(frames, fmt) == frames * fmt.nChannels * 4

\* The guard at the head of ProcessAudioData (audio_tap.cpp:427-429); data is
\* the non-null pointer a successful GetBuffer returned.
Rejects(tap, pkt) ==
  tap.callback_ = NoCallback \/ tap.mix_format_ = NullFormat \/ pkt.frames = 0

\* A callback invocation that takes channels and rate from the buffer's size.
CallbackArgsBySize(tap, pkt) ==
  [data |-> "float_buffer",
   length |-> FloatDataSize(pkt.frames, tap.mix_format_),
   channels |-> IF pkt.frames > 480 THEN 1 ELSE tap.mix_format_.nChannels,
   sampleRate |-> tap.mix_format_.nSamplesPerSec]

\* The arguments of the callback invocation (audio_tap.cpp:475-478).
CallbackArgs(tap, pkt) ==
  [data |-> "float_buffer",
   length |-> FloatDataSize(pkt.frames, tap.mix_format_),
   channels |-> tap.mix_format_.nChannels,
   sampleRate |-> tap.mix_format_.nSamplesPerSec]

\* The record of one callback invocation: the packet it was made for, the
\* callee, the arguments and the float a sample of the packet became.
Invoked(tap, pkt) ==
  LET args == CallbackArgs(tap, pkt) IN
  [id |-> pkt.id, to |-> CallbackTarget(tap.callback_),
   length |-> args.length, channels |-> args.channels, sampleRate |-> args.sampleRate,
   value |-> Normalize(tap.mix_format_, pkt.sample)]

\* A callback invocation that puts its buffer ahead of the earlier ones.
ProcessNewestFirst(tap, pkt, log) ==
  IF Rejects(tap, pkt) THEN log ELSE <<Invoked(tap, pkt)>> \o log

\* AudioTap::ProcessAudioData (audio_tap.cpp:426-479): past the guard the samples
\* are normalized and the callback is invoked.
ProcessAudioData(tap, pkt, log) ==
  IF Rejects(tap, pkt) THEN log ELSE Append(log, Invoked(tap, pkt))

\* ------------------------------------------------------- the bridge's lambda

\* Checks that let a buffer of any size through.
LambdaForwardsAnySize(inv) ==
  /\ ~(inv.data = "null" \/ inv.length = 0)
  /\ ~(inv.channels <= 0 \/ inv.channels > 32 \/ inv.sampleRate <= 0 \/
       inv.sampleRate > 192000)

\* The checks at the head of the lambda (audio_capture_addon.cc:221-229): the
\* buffer goes on unless one of them returns.
LambdaForwards(inv) ==
  /\ ~(inv.data = "null" \/ inv.length = 0 \/ inv.length > MaxBytes)
  /\ ~(inv.channels <= 0 \/ inv.channels > 32 \/ inv.sampleRate <= 0 \/
       inv.sampleRate > 192000)

\* A queue that is full with one call in it.
FullAtOne(q) == Len(q) >= 1

\* The queue of the thread-safe function has no room: BlockingCall waits for the
\* JavaScript thread to take a call off it.
QueueFull(q) == MaxQueueSize > 0 /\ Len(q) >= MaxQueueSize

\* g_ts_callback.BlockingCall(callback): the call is queued on the handle if the
\* thread-safe function still takes calls.
BlockingCall(item, q) ==
  IF g_ts_callback # NoHandle /\ tsfn[g_ts_callback] = "acquired"
  THEN Append(q, item) ELSE q

\* The body of the lambda for one invocation.  audio_capture_addon.cc checks the
\* arguments, copies the bytes into dataCopy (or returns if that cannot be
\* allocated) and queues a function that reads dataCopy; addon_main.cc queues a
\* function that reads through the data pointer it was given.
CaptureLambda(lambda, inv, copy, q) ==
  IF lambda = MainLambda
  THEN BlockingCall([bytes |-> "data", length |-> inv.length, channels |-> inv.channels,
                     sampleRate |-> inv.sampleRate], q)
  ELSE IF ~LambdaForwards(inv) \/ copy # "ok" THEN q
  ELSE BlockingCall([bytes |-> "dataCopy", length |-> inv.length,
                     channels |-> inv.channels, sampleRate |-> inv.sampleRate], q)

\* What one call of ProcessAudioData leaves queued for the JavaScript thread.
QueuedBy(tap, pkt, copy, q) ==
  IF Rejects(tap, pkt) \/ tap.callback_ \notin BridgeLambdas THEN q
  ELSE CaptureLambda(tap.callback_, CallbackArgs(tap, pkt), copy, q)

\* A loop condition that never sees the stop flag.
StopNeverObserved(tap) == FALSE

\* stop_capture_.load() at the loop condition (audio_tap.cpp:389).
StopObserved(tap) == tap.stop_capture_

\* while (!stop_capture_.load()) (audio_tap.cpp:389)
CaptureLoopHead ==
  /\ ~raced
  /\ thread.pc = "loop"
  /\ thread' = [thread EXCEPT !.pc = IF StopObserved(ThreadTap) THEN "exited" ELSE "wait"]
  /\ UNCHANGED <<sessionVars, callVars, tapVars, queue, capSignal, produced, delivered,
                 bridgeVars, raced, dataVars, comVars, utilVars>>

\* The one-second wait on capture_event_ times out (audio_tap.cpp:390-394).
CaptureWaitTimeout ==
  /\ ~raced
  /\ thread.pc = "wait"
  /\ ~capSignal
  /\ thread' = [thread EXCEPT !.pc = "loop"]
  /\ UNCHANGED <<sessionVars, callVars, tapVars, queue, capSignal, produced, delivered,
                 bridgeVars, raced, dataVars, comVars, utilVars>>

\* The wait returns with the event set (auto-reset); unless the stop flag is set,
\* GetNextPacketSize opens the drain loop (audio_tap.cpp:390-400).
CaptureWaitSignaled(hr) ==
  /\ ~raced
  /\ thread.pc = "wait"
  /\ capSignal
  /\ capSignal' = FALSE
  /\ thread' = [thread EXCEPT !.pc =
                  IF ~ThreadTap.stop_capture_ /\ hr = "ok" /\ queue # <<>>
                  THEN "drain" ELSE "loop"]
  /\ UNCHANGED <<sessionVars, callVars, tapVars, queue, produced, delivered, bridgeVars,
                 raced, dataVars, comVars, utilVars>>

\* A flag test that takes no buffer for silent.
NeverSilent(pkt) == FALSE

\* flags & AUDCLNT_BUFFERFLAGS_SILENT (audio_tap.cpp:411)
Silent(pkt) == pkt.kind = "silent"

\* A drain loop that gives up the buffer it holds once it sees the stop flag.
AbandonOnStop(tap) == IF tap.stop_capture_ THEN "exited" ELSE "release"

\* Where the thread goes with the buffer GetBuffer gave it, once
\* ProcessAudioData has returned or was skipped: to ReleaseBuffer
\* (audio_tap.cpp:410-415).
AfterGetBuffer(tap) == "release"

\* The first half of a pass of the drain loop (audio_tap.cpp:400-414): GetBuffer,
\* then ProcessAudioData unless the packet is silent.  A failed GetBuffer breaks
\* out to the outer loop.
CapturePacket(hr, copy) ==
  /\ ~raced
  /\ thread.pc = "drain"
  /\ IF hr = "get_buffer_fail"
     THEN /\ thread' = [thread EXCEPT !.pc = "loop"]
          /\ UNCHANGED <<delivered, warned, warnings, jsQueue>>
     ELSE IF Silent(Head(queue))
     THEN /\ thread' = [thread EXCEPT !.pc = AfterGetBuffer(ThreadTap)]
          /\ UNCHANGED <<delivered, warned, warnings, jsQueue>>
     ELSE LET tap == ThreadTap
              pkt == Head(queue)
              warns == ~Rejects(tap, pkt) /\ Warns(tap.mix_format_, warned)
              waits == QueueFull(jsQueue) /\ QueuedBy(tap, pkt, copy, jsQueue) # jsQueue
          IN /\ delivered' = ProcessAudioData(tap, pkt, delivered)
             /\ warned' = (warned \/ warns)
             /\ warnings' = warnings + (IF warns THEN 1 ELSE 0)
             /\ jsQueue' = IF waits THEN jsQueue ELSE QueuedBy(tap, pkt, copy, jsQueue)
             /\ thread' = [thread EXCEPT !.pc = IF waits THEN "blocked"
                                                ELSE AfterGetBuffer(tap)]
  /\ UNCHANGED <<sessionVars, callVars, tapVars, queue, capSignal, produced, bridgeVars,
                 raced, invocation, comVars, utilVars>>

\* A drain loop that ends the thread when a capture client call fails.
ExitOnFailure(hr, rest) ==
  IF hr # "ok" THEN "exited" ELSE IF rest # <<>> THEN "drain" ELSE "loop"

\* The loop condition after ReleaseBuffer and GetNextPacketSize
\* (audio_tap.cpp:400, 417-421): on with the next packet, or out to the outer
\* loop when a call failed or nothing is pending.
NextAfterPacket(hr, rest) ==
  IF hr = "ok" /\ rest # <<>> THEN "drain" ELSE "loop"

\* The second half of the pass (audio_tap.cpp:415-421): ReleaseBuffer, then
\* GetNextPacketSize.  A failed ReleaseBuffer still ends the read of its packet.
CaptureRelease(hr) ==
  /\ ~raced
  /\ thread.pc = "release"
  /\ queue' = Tail(queue)
  /\ thread' = [thread EXCEPT !.pc = NextAfterPacket(hr, Tail(queue))]
  /\ UNCHANGED <<sessionVars, callVars, tapVars, capSignal, produced, delivered, bridgeVars,
                 raced, dataVars, comVars, utilVars>>

\* The device: while the audio client runs it queues a packet and sets the
\* buffer-ready event the client was given (audio_tap.cpp:378).
DeviceDeliver(p, sample) ==
  /\ ~raced
  /\ thread.tap # NoTap
  /\ ThreadTap.audio_client_ = "running"
  /\ produced < MaxBuffers
  /\ produced' = produced + 1
  /\ queue' = Append(queue, [id |-> produced + 1, kind |-> p.kind, frames |-> p.frames,
                             sample |-> sample])
  /\ capSignal' = TRUE
  /\ UNCHANGED <<sessionVars, callVars, tapVars, thread, delivered, bridgeVars, raced, dataVars, comVars, utilVars>>

\* ------------------------------------------------------------------ the bridge
\* AudioCaptureAddon::StartCapture (audio_capture_addon.cc:196-282): a new
\* thread-safe function replaces g_ts_callback, then the core is called with the
\* capture lambda.
BridgeStartCapture(pid, outcome) ==
  /\ At("idle")
  /\ nTsfn < MaxTsfn
  /\ nTsfn' = nTsfn + 1
  /\ g_ts_callback' = nTsfn + 1
  /\ tsfn' = [tsfn EXCEPT ![nTsfn + 1] = "acquired"]
  /\ StartCaptureBody("js_start", pid, BridgeLambda, outcome)
  /\ UNCHANGED <<waited, threadVars, raced, dataVars, utilVars>>

\* A stopCapture that releases the handle before it calls the core.
ReleasedAtEntry(ts) == ReleaseCallback(ts)

\* The handles while the bridge's StopCapture is inside the core's StopCapture
\* (audio_capture_addon.cc:290): the release comes after the call has returned.
HeldThroughStop(ts) == ts

\* AudioCaptureAddon::StopCapture (audio_capture_addon.cc:285-308): the core's
\* StopCapture, then the release of g_ts_callback if it is non-empty.
BridgeStopCapture ==
  /\ At("idle")
  /\ StopCalled
  /\ IF StopRejected
     THEN /\ Return("js_stop", "false")
          /\ tsfn' = ReleaseCallback(tsfn)
          /\ UNCHANGED sessionVars
     ELSE /\ StopCaptureEnter("js_stop")
          /\ tsfn' = HeldThroughStop(tsfn)
  /\ UNCHANGED <<tapVars, threadVars, g_ts_callback, nTsfn, raced, dataVars, comVars, utilVars>>

\* StartCapture of the bridge in addon_main.cc (addon_main.cc:176-227): as above,
\* with the lambda of that file.
MainStartCapture(pid, outcome) ==
  /\ At("idle")
  /\ nTsfn < MaxTsfn
  /\ nTsfn' = nTsfn + 1
  /\ g_ts_callback' = nTsfn + 1
  /\ tsfn' = [tsfn EXCEPT ![nTsfn + 1] = "acquired"]
  /\ StartCaptureBody("js_start", pid, MainLambda, outcome)
  /\ UNCHANGED <<waited, threadVars, raced, dataVars, utilVars>>

\* The JavaScript thread, when it is not inside a call of the bridge, runs the
\* call at the head of the thread-safe function's queue: the queued function
\* copies the bytes it refers to into an ArrayBuffer and calls the JavaScript
\* function (audio_capture_addon.cc:241-276, addon_main.cc:207-221).  A capture
\* thread waiting in BlockingCall for room in the queue then gets its call in.
JsCall ==
  /\ ~raced
  /\ pc = "idle"
  /\ jsQueue # <<>>
  /\ IF thread.pc = "blocked"
     THEN /\ jsQueue' = QueuedBy(ThreadTap, Head(queue), "ok", Tail(jsQueue))
          /\ thread' = [thread EXCEPT !.pc = AfterGetBuffer(ThreadTap)]
     ELSE /\ jsQueue' = Tail(jsQueue)
          /\ thread' = thread
  /\ UNCHANGED <<sessionVars, callVars, tapVars, queue, capSignal, produced, delivered,
                 bridgeVars, raced, warned, warnings, invocation, comVars, utilVars>>

\* AudioCaptureAddon::IsCapturing (audio_capture_addon.cc:310-315): the answer of
\* the core's IsCapturing, as a JavaScript boolean.
BridgeIsCapturing ==
  /\ At("idle")
  /\ IsCapturingBody("js_is_capturing")

\* ------------------------------------------------------- a second caller
\* StartCapture entered by a second thread while the first caller is inside
\* StartCapture (win_audio_capture.cpp:59-73): nothing but the capturing_ check
\* keeps it out.  Its move into process_capture_ is an unsynchronized write to a
\* member the first caller reads at line 76; the program's behaviour is undefined
\* from there on and the model follows it no further.
ReentrantStartCapture(pid, cb, outcome) ==
  /\ ~raced
  /\ alive
  /\ pc \in {"sc_initialize", "sc_wait", "sc_mark"}
  /\ IF StartRejected
     THEN UNCHANGED <<sessionVars, tapVars, raced>>
     ELSE /\ nTaps < MaxTaps
          /\ callback_' = cb
          /\ current_pid_' = pid
          /\ nTaps' = nTaps + 1
          /\ raced' = TRUE
          /\ UNCHANGED <<alive, capturing_>>
          /\ IF outcome # "ok"
             THEN /\ taps' = [taps EXCEPT ![nTaps + 1] = Destructor(NewTap(pid, outcome))]
                  /\ process_capture_' = process_capture_
             ELSE /\ taps' = DropTap([taps EXCEPT ![nTaps + 1] = NewTap(pid, outcome)],
                                     process_capture_)
                  /\ process_capture_' = nTaps + 1
  /\ UNCHANGED <<callVars, threadVars, bridgeVars, dataVars, comVars, utilVars>>

\* --------------------------------------------------------------- specifications
\* What the OS, the device, the capture thread and the inside of a running public
\* call do.
Internal ==
  \/ \E o \in InitOutcomes, v \in ProcessViews : TapInitialize(o, v)
  \/ \E t \in 1..MaxTaps, o \in ActivateOutcomes : ActivateCompleted(t, o)
  \/ WaitTick
  \/ ActivationTimeout
  \/ \E o \in {"ok", "client_start_fail"} : ActivationSignaled(o)
  \/ StartCaptureReturn
  \/ StopSignal
  \/ StopJoin
  \/ CaptureLoopHead
  \/ CaptureWaitTimeout
  \/ \E hr \in {"ok", "next_size_fail"} : CaptureWaitSignaled(hr)
  \/ \E hr \in GetBufferOutcomes, c \in CopyOutcomes : CapturePacket(hr, c)
  \/ \E hr \in DrainOutcomes : CaptureRelease(hr)
  \/ \E p \in Packets, s \in DeviceSamples : DeviceDeliver(p, s)

\* The core driven directly: StartCapture, StopCapture and destruction, one call
\* at a time.
Next ==
  \/ \E a \in StartArgs, o \in MakeOutcomes : StartCapture(a[1], a[2], o)
  \/ StopCapture
  \/ IsCapturing
  \/ DestroySession
  \/ Internal

Spec == Init /\ [][Next]_vars

\* The steps of the capture thread.
CaptureThread ==
  \/ CaptureLoopHead
  \/ CaptureWaitTimeout
  \/ \E hr \in {"ok", "next_size_fail"} : CaptureWaitSignaled(hr)
  \/ \E hr \in GetBufferOutcomes, c \in CopyOutcomes : CapturePacket(hr, c)
  \/ \E hr \in DrainOutcomes : CaptureRelease(hr)

\* The core with threads that are scheduled: the capture thread keeps running (its
\* waits are bounded, its calls return), and the control thread goes on inside
\* StopCapture when nothing blocks it.
FairSpec ==
  /\ Spec
  /\ WF_vars(CaptureThread)
  /\ WF_vars(StopSignal)
  /\ WF_vars(StopJoin)

\* The core driven by the host bridge's startCapture and stopCapture.
NextBridge ==
  \/ \E p \in BridgePids, o \in MakeOutcomes : BridgeStartCapture(p, o)
  \/ BridgeStopCapture
  \/ BridgeIsCapturing
  \/ Internal
  \/ JsCall

BridgeSpec == Init /\ [][NextBridge]_vars

\* The bridge with threads that are scheduled: the capture thread keeps running
\* and the JavaScript thread goes on inside stopCapture when nothing blocks it.
\* The JavaScript thread is not bound to run the queued calls.
FairBridgeSpec ==
  /\ BridgeSpec
  /\ WF_vars(CaptureThread)
  /\ WF_vars(StopSignal)
  /\ WF_vars(StopJoin)

\* The core driven by the bridge of addon_main.cc.
NextMainBridge ==
  \/ \E p \in BridgePids, o \in MakeOutcomes : MainStartCapture(p, o)
  \/ BridgeStopCapture
  \/ Internal
  \/ JsCall

MainBridgeSpec == Init /\ [][NextMainBridge]_vars

\* The core with a second thread calling StartCapture.
NextReentrant ==
  \/ Next
  \/ \E a \in StartArgs, o \in MakeOutcomes : ReentrantStartCapture(a[1], a[2], o)

ReentrantSpec == Init /\ [][NextReentrant]_vars

\* The core driven directly, on a control thread in any apartment.
ComSpec == ComInit /\ [][Next]_vars

\* ---------------------------------------------- the normalizer on its own
\* The formats a format block may hold: each tag with each sample width.
Formats ==
  [wFormatTag : {"IEEE_FLOAT", "PCM", "EXTENSIBLE"}, nChannels : {2},
   nSamplesPerSec : {48000}, wBitsPerSample : {16, 24, 32}]
\* The 16-bit PCM format.
Pcm16Format ==
  [wFormatTag |-> "PCM", nChannels |-> 2, nSamplesPerSec |-> 48000, wBitsPerSample |-> 16]
\* Sample words handed to the normalizer under any format: the ends of the
\* 16-bit range.
SampleWords == {-32768, 32767}
\* Every 16-bit sample.
Int16Samples == -32768..32767

\* The tap of a capture that has started: made, activated with success, let go
\* of by the OS and started with callback cb.
StartedTap(cb) ==
  LET made == NewTap(1, "ok")
      requested == [HandlerAddRef(made) EXCEPT !.activation = "pending"]
      client == [requested EXCEPT !.audio_client_ = "obtained",
                                  !.acq["audio_client"] = @ + 1]
      done == [InitializeAudioClientInCallback(client, "ok") EXCEPT
                 !.activation = "released", !.completed_as = "ok", !.refs = @ - 1]
  IN TapStart([done EXCEPT !.co_init = "RPC_E_CHANGED_MODE", !.mf_started = TRUE],
              cb, "ok")

\* A capture is under way on tap 1, whose format block holds fmt; the capture
\* thread is at `place` with packets pkts pending.
CaptureUnderWay(fmt, pkts, place) ==
  /\ alive = TRUE
  /\ capturing_ = TRUE
  /\ callback_ = "cbA"
  /\ current_pid_ = 1
  /\ process_capture_ = 1
  /\ pc = "idle"
  /\ lastOp = "start"
  /\ result = "true"
  /\ history = "started"
  /\ owner = "cbA"
  /\ waited = 0
  /\ taps = [t \in 1..MaxTaps |->
               IF t = 1 THEN [StartedTap("cbA") EXCEPT !.mix_format_ = fmt] ELSE Unborn]
  /\ nTaps = 1
  /\ thread = [pc |-> place, tap |-> 1]
  /\ queue = pkts
  /\ capSignal = FALSE
  /\ produced = Len(pkts)
  /\ delivered = <<>>
  /\ g_ts_callback = NoHandle
  /\ tsfn = [h \in 1..MaxTsfn |-> "none"]
  /\ nTsfn = 0
  /\ raced = FALSE
  /\ warned = FALSE
  /\ warnings = 0
  /\ jsQueue = <<>>
  /\ invocation = NoInvocation
  /\ initialized_ = TRUE
  /\ com = CoInitializeEx(NoCom, "MTA")
  /\ pl = NoList /\ ao = NoLookup

NormalizerInit == CaptureUnderWay(RequestedFormat, <<>>, "wait")

\* The capture thread is handed a buffer under a format block of any content:
\* the one capture stands for a run of captures, each with a format of its own.
NormalizerFeed(fmt, p, sample) ==
  /\ thread.pc = "wait"
  /\ queue = <<>>
  /\ ~capSignal
  /\ produced < MaxBuffers
  /\ taps' = [taps EXCEPT ![thread.tap].mix_format_ = fmt]
  /\ produced' = produced + 1
  /\ queue' = <<[id |-> produced + 1, kind |-> p.kind, frames |-> p.frames,
                 sample |-> sample]>>
  /\ capSignal' = TRUE
  /\ UNCHANGED <<sessionVars, callVars, nTaps, thread, delivered, bridgeVars, raced,
                 dataVars, comVars, utilVars>>

NextNormalizer ==
  \/ \E f \in Formats, p \in Packets, s \in SampleWords : NormalizerFeed(f, p, s)
  \/ CaptureThread

NormalizerSpec == NormalizerInit /\ [][NextNormalizer]_vars

\* The capture thread has got a buffer of 16-bit PCM samples from GetBuffer, of
\* any sample value, and goes through one pass of the drain loop with it.
RoundTripInit ==
  \E s \in Int16Samples :
     CaptureUnderWay(Pcm16Format,
                     <<[id |-> 1, kind |-> "audio", frames |-> 480, sample |-> s]>>,
                     "drain")

NextRoundTrip ==
  \/ \E hr \in GetBufferOutcomes, c \in CopyOutcomes : CapturePacket(hr, c)
  \/ \E hr \in DrainOutcomes : CaptureRelease(hr)

RoundTripSpec == RoundTripInit /\ [][NextRoundTrip]_vars

\* ------------------------------------------------- the lambda on its own
\* The arguments a core may invoke the capture callback with: the parameters
\* are a pointer, a size_t and two ints (audio_capture.h:70).
Invocations ==
  [data : {"null", "float_buffer"},
   length : {0, 1, 3840, MaxBytes, MaxBytes + 1},
   channels : {-1, 0, 1, 2, 32, 33},
   sampleRate : {-1, 0, 1, 48000, 192000, 192001}]

\* The bridge has made its thread-safe function and handed its lambda to a core,
\* which is about to invoke it with arguments of its own.
LambdaInit ==
  /\ alive = TRUE
  /\ capturing_ = FALSE
  /\ callback_ = NoCallback
  /\ current_pid_ = NoPid
  /\ process_capture_ = NoTap
  /\ pc = "idle"
  /\ lastOp = "none"
  /\ result = "none"
  /\ history = "none"
  /\ owner = NoCallback
  /\ waited = 0
  /\ taps = [t \in 1..MaxTaps |-> Unborn]
  /\ nTaps = 0
  /\ thread = NoThread
  /\ queue = <<>>
  /\ capSignal = FALSE
  /\ produced = 0
  /\ delivered = <<>>
  /\ g_ts_callback = 1
  /\ tsfn = [h \in 1..MaxTsfn |-> IF h = 1 THEN "acquired" ELSE "none"]
  /\ nTsfn = 1
  /\ raced = FALSE
  /\ warned = FALSE
  /\ warnings = 0
  /\ jsQueue = <<>>
  /\ invocation \in Invocations
  /\ Constructed("none")
  /\ pl = NoList /\ ao = NoLookup

\* The lambda of audio_capture_addon.cc runs on the arguments it was invoked
\* with (audio_capture_addon.cc:216-279).
LambdaInvoked(copy) ==
  /\ invocation # NoInvocation
  /\ jsQueue' = CaptureLambda(BridgeLambda, invocation, copy, jsQueue)
  /\ invocation' = NoInvocation
  /\ UNCHANGED <<sessionVars, callVars, tapVars, threadVars, bridgeVars, raced, warned,
                 warnings, comVars, utilVars>>

NextLambda ==
  \/ \E c \in CopyOutcomes : LambdaInvoked(c)
  \/ JsCall

LambdaSpec == LambdaInit /\ [][NextLambda]_vars

\* ------------------------------------------- process_manager::GetProcessList
\* The process ids an audio session may report; 0 is the system's idle process.
ListPids == {0, 1, 2}

\* The longest list of active audio sessions.
MaxSessions == 3

\* The access levels OpenProcess is tried with, from the lowest to the highest.
access_levels == <<"query_limited", "query", "query_vm_read">>

\* The levels a process may open at: a process that opens at a level opens at
\* the lower ones too, and one that is gone or protected opens at none.
OpenableSets ==
  {{}, {"query_limited"}, {"query_limited", "query"},
   {"query_limited", "query", "query_vm_read"}}

\* What the system shows of the processes: the levels each opens at, whether its
\* image path can be queried, and whether that path is the current process's.
\* Process 0 cannot be opened.
Worlds ==
  {w \in [ListPids -> [opens : OpenableSets, named : BOOLEAN, self : BOOLEAN]] :
     w[0] = [opens |-> {}, named |-> FALSE, self |-> FALSE]}

\* The lists of active sessions, by the process id each reports.
RECURSIVE SessionLists(_)
SessionLists(n) ==
  IF n = 0 THEN {<<>>}
  ELSE SessionLists(n - 1)
         \cup {Append(l, p) : l \in {m \in SessionLists(n - 1) : Len(m) = n - 1},
                              p \in ListPids}

\* The handle a process is opened with: the first level that opens, up to the
\* one with virtual-memory read access if require_vm_access, or null.
TryOpenProcessWithMultipleAccess(opens, require_vm_access) ==
  LET end_index == IF require_vm_access THEN 3 ELSE 2
      opened == {i \in 1..end_index : access_levels[i] \in opens}
  IN IF opened = {} THEN "null"
     ELSE access_levels[CHOOSE i \in opened : \A j \in opened : i <= j]

\* win_utils::HasProcessAccess: the handle is valid.
HasProcessAccess(opens) == TryOpenProcessWithMultipleAccess(opens, TRUE) # "null"

\* GetSelfProcessIds: nothing if the current process cannot be opened or named or
\* no snapshot can be taken; else the processes of the snapshot that open with
\* virtual-memory read access and whose path is queried and equals the own one.
GetSelfProcessIds(procs, outcome) ==
  IF outcome \in {"open_fail", "query_fail", "snapshot_fail"} THEN {}
  ELSE {p \in DOMAIN procs :
          /\ "query_vm_read" \in procs[p].opens
          /\ procs[p].named
          /\ procs[p].self}

\* Steps 1 and 2: the session manager is initialized and gives the sessions. If
\* it cannot be initialized the call returns the empty list; if it throws, the
\* call goes on to the filter with nothing gathered.
ListBegin(outcome) ==
  /\ pl.phase = "start"
  /\ pl' = CASE outcome = "init_fail" -> [pl EXCEPT !.phase = "done"]
             [] outcome = "throws" -> [pl EXCEPT !.phase = "loop", !.sessions = <<>>]
             [] OTHER -> [pl EXCEPT !.phase = "loop"]
  /\ UNCHANGED <<sessionVars, callVars, tapVars, threadVars, bridgeVars, raced,
                 dataVars, comVars, ao>>

\* Step 3, one session: pid 0 and a pid already gathered are skipped, then a
\* process HasProcessAccess refuses; the others are gathered, unless getting
\* the process's information throws.
ListSession(info) ==
  /\ pl.phase = "loop"
  /\ pl.sessions # <<>>
  /\ LET pid == Head(pl.sessions)
         rest == [pl EXCEPT !.sessions = Tail(pl.sessions)]
     IN pl' = IF pid = 0 \/ pid \in pl.processed_pids THEN rest
              ELSE IF ~HasProcessAccess(pl.procs[pid].opens) THEN rest
              ELSE IF info = "throws"
                     THEN [rest EXCEPT !.granted = @ \cup {pid}]
              ELSE [rest EXCEPT !.granted = @ \cup {pid},
                                !.all_processes = Append(@, pid),
                                !.processed_pids = @ \cup {pid}]
  /\ UNCHANGED <<sessionVars, callVars, tapVars, threadVars, bridgeVars, raced,
                 dataVars, comVars, ao>>

\* Step 4: the processes of the current application are taken out of the list;
\* if that throws, the list is returned as gathered.
ListFilter(outcome) ==
  /\ pl.phase = "loop"
  /\ pl.sessions = <<>>
  /\ LET self_pids == GetSelfProcessIds(pl.procs, outcome)
         filtered_processes ==
           SelectSeq(pl.all_processes, LAMBDA p : p \notin self_pids)
     IN pl' = [pl EXCEPT !.phase = "done",
                         !.self_pids = self_pids,
                         !.result = IF outcome = "throws" THEN pl.all_processes
                                    ELSE filtered_processes]
  /\ UNCHANGED <<sessionVars, callVars, tapVars, threadVars, bridgeVars, raced,
                 dataVars, comVars, ao>>

\* GetProcessList is called on a new session, with any sessions active and
\* any processes in the system.
ProcessListInit ==
  /\ NewSession
  /\ Constructed("none")
  /\ ao = NoLookup
  /\ \E sessions \in SessionLists(MaxSessions), procs \in Worlds :
       pl = [phase |-> "start", sessions |-> sessions, procs |-> procs,
             processed_pids |-> {}, granted |-> {}, all_processes |-> <<>>,
             self_pids |-> {}, result |-> <<>>]

NextProcessList ==
  \/ \E outcome \in {"ok", "init_fail", "throws"} : ListBegin(outcome)
  \/ \E info \in {"ok", "throws"} : ListSession(info)
  \/ \E outcome \in {"ok", "open_fail", "query_fail", "snapshot_fail", "throws"} :
       ListFilter(outcome)

ProcessListSpec == ProcessListInit /\ [][NextProcessList]_vars

\* ------------------------------------------------- GetAudioObjectIDForPID
\* The id of no audio object.
kAudioObjectUnknown == 0

\* The audio process objects of the system.
AudioObjects == {1, 2}

\* The process ids a lookup is asked for, and the ones an object may report.
LookupPids == {0, 1, 2}

\* The longest list of audio process objects.
MaxObjects == 3

\* What the system answers when an object is asked for its process id: a
\* status and, with noErr, the pid.
ObjectPids == [AudioObjects -> [status : {"noErr", "err"}, pid : LookupPids \ {0}]]

\* The lists mac_utils::GetProcessList may return: audio objects, among them
\* the unknown one; the empty list also when the system's list cannot be got.
RECURSIVE AudioLists(_)
AudioLists(n) ==
  IF n = 0 THEN {<<>>}
  ELSE AudioLists(n - 1)
         \cup {Append(l, o) : l \in {m \in AudioLists(n - 1) : Len(m) = n - 1},
                              o \in AudioObjects \cup {kAudioObjectUnknown}}

\* mac_utils::GetProcessPID: the object's pid, or 0 if it cannot be got.
GetProcessPID(pids, processID) ==
  IF pids[processID].status = "noErr" THEN pids[processID].pid ELSE 0

\* mac_utils::GetAudioObjectIDForPID up to the loop: pid 0 has no object; for
\* another pid the process list is got.
MacUtilsLookup ==
  /\ ao.phase = "start"
  /\ ao.impl = "mac_utils"
  /\ ao' = IF ao.pid = 0
             THEN [ao EXCEPT !.phase = "done", !.result = kAudioObjectUnknown]
             ELSE [ao EXCEPT !.phase = "loop", !.processIDs = ao.list]
  /\ UNCHANGED <<sessionVars, callVars, tapVars, threadVars, bridgeVars, raced,
                 dataVars, comVars, pl>>

\* One turn of the loop of mac_utils::GetAudioObjectIDForPID, or its end: an
\* unknown object is passed over, the first object whose pid is the requested
\* one is returned, and kAudioObjectUnknown after the last object.
MacUtilsStep ==
  /\ ao.phase = "loop"
  /\ ao' = IF ao.processIDs = <<>>
             THEN [ao EXCEPT !.phase = "done", !.result = kAudioObjectUnknown]
           ELSE LET processID == Head(ao.processIDs)
                    rest == [ao EXCEPT !.processIDs = Tail(ao.processIDs)]
                IN IF processID = kAudioObjectUnknown THEN rest
                   ELSE IF GetProcessPID(ao.pids, processID) = ao.pid
                          THEN [rest EXCEPT !.phase = "done", !.result = processID]
                   ELSE rest
  /\ UNCHANGED <<sessionVars, callVars, tapVars, threadVars, bridgeVars, raced,
                 dataVars, comVars, pl>>

\* utils::GetAudioObjectIDForPID: 0 for pid 0, and the pid itself as the object
\* id for any other pid.
UtilsLookup ==
  /\ ao.phase = "start"
  /\ ao.impl = "utils"
  /\ ao' = [ao EXCEPT !.phase = "done",
                      !.result = IF ao.pid = 0 THEN 0 ELSE ao.pid]
  /\ UNCHANGED <<sessionVars, callVars, tapVars, threadVars, bridgeVars, raced,
                 dataVars, comVars, pl>>

\* Either GetAudioObjectIDForPID is called with any pid, any process list and
\* any answers of the objects.
AudioObjectInit ==
  /\ NewSession
  /\ Constructed("none")
  /\ pl = NoList
  /\ \E impl \in {"mac_utils", "utils"}, pid \in LookupPids,
        list \in AudioLists(MaxObjects), pids \in ObjectPids :
       ao = [phase |-> "start", impl |-> impl, pid |-> pid, list |-> list,
             pids |-> pids, processIDs |-> <<>>, result |-> kAudioObjectUnknown]

NextAudioObject ==
  \/ MacUtilsLookup
  \/ MacUtilsStep
  \/ UtilsLookup

AudioObjectSpec == AudioObjectInit /\ [][NextAudioObject]_vars

\* ------------------------------------------------------------------- properties
\* The control thread is between public calls of a live session.
BetweenCalls == alive /\ ~raced /\ pc = "idle"

\* The references to tap t that somebody holds: the session's process_capture_
\* and the OS's reference to the completion handler.
Holders(t) ==
  (IF process_capture_ = t THEN 1 ELSE 0)
  + (IF taps[t].activation \in {"pending", "completed"} THEN 1 ELSE 0)

\* Resource r of a live tap is held exactly when the tap's member says so, and it
\* was released as often as it was acquired but for the one held.
HeldAsRecorded(tap) ==
  LET held == [r \in Resources |->
                 CASE r = "audio_client" -> tap.audio_client_ # "null"
                   [] r = "capture_client" -> tap.capture_client_
                   [] r = "capture_event" -> tap.capture_event_
                   [] r = "activate_event" -> tap.activate_completed_event_
                   [] r = "mix_format" -> tap.mix_format_ # NullFormat]
  IN \A r \in Resources : tap.acq[r] = tap.rel[r] + (IF held[r] THEN 1 ELSE 0)

\* C1: after a StartCapture that returned true, the next StopCapture returns true
\* and leaves the session idle: not capturing, process_capture_ null, callback and
\* pid cleared, the capture thread joined.  Over every sequence of StartCapture,
\* StopCapture and destruction each resource of each tap is released once per
\* acquisition: a destroyed tap has leaked nothing and released nothing it did
\* not hold, and a live tap is referenced by exactly its holders.
C1_StopReturnsToIdle ==
  /\ (history = "started" /\ BetweenCalls) => capturing_
  /\ (history = "stopping" /\ pc = "idle" /\ lastOp = "stop") =>
        /\ result = "true"
        /\ ~capturing_
        /\ process_capture_ = NoTap
        /\ callback_ = NoCallback
        /\ current_pid_ = NoPid
        /\ thread = NoThread
  /\ \A t \in 1..MaxTaps :
        /\ taps[t].state = "destroyed" => taps[t].acq = ZeroCount /\ taps[t].rel = ZeroCount
        /\ taps[t].state = "live" =>
              /\ taps[t].refs = Holders(t)
              /\ taps[t].refs >= 1
              /\ HeldAsRecorded(taps[t])

\* A StopCapture has returned true after a capture that ran, and the tap of that
\* capture is destroyed.
C1_Witness ==
  /\ pc = "idle" /\ lastOp = "stop" /\ history = "stopping" /\ result = "true"
  /\ nTaps >= 1
  /\ taps[nTaps].state = "destroyed"

\* C2: between public calls process_capture_ is non-null exactly when the session
\* is capturing; it is null when the session is idle, also after a StartCapture
\* that returned false.
C2_TapIffCapturing ==
  BetweenCalls => (process_capture_ # NoTap <=> capturing_)

\* The span in which the capture thread exists: from AudioTap::Start inside
\* StartCapture (the session is about to be marked capturing) to the join inside
\* StopCapture.
ThreadWindow(capturing, place) ==
  capturing \/ place \in {"sc_mark", "stop_signal", "stop_join"}

\* C3 as stated: the callback is invoked only while capturing_ is set.
C3_CallbackOnlyWhileCapturing ==
  [][Len(delivered') > Len(delivered) => capturing_]_vars

\* C3, amended: the callback is invoked only by the capture thread, and that
\* thread exists only from AudioTap::Start inside the StartCapture that is about
\* to return true until the join inside StopCapture; no invocation happens while
\* the session is idle and not capturing.
C3_CallbackOnlyWhileThreadRuns ==
  [][/\ Len(delivered') > Len(delivered) =>
          /\ thread.pc = "drain"
          /\ thread.tap = process_capture_
          /\ ThreadWindow(capturing_, pc)
     /\ thread'.pc # "none" => ThreadWindow(capturing_', pc')]_vars

\* The callback has been invoked while StopCapture was waiting for the thread.
C3_Witness ==
  /\ pc = "stop_join"
  /\ ~capturing_
  /\ delivered # <<>>
  /\ thread.pc = "loop"

\* C4: a StartCapture on a capturing session returns false at once and changes
\* nothing: callback, pid, process_capture_, the taps and the capture thread are
\* as before the call.
C4_RejectedStartNoEffect ==
  [][\A a \in StartArgs, o \in MakeOutcomes :
        (capturing_ /\ StartCapture(a[1], a[2], o)) =>
           /\ result' = "false"
           /\ pc' = "idle"
           /\ UNCHANGED <<sessionVars, tapVars, threadVars>>]_vars

\* A StartCapture has returned false on a session whose capture thread runs.
C4_Witness ==
  /\ pc = "idle" /\ lastOp = "start" /\ result = "false"
  /\ capturing_
  /\ thread.pc # "none"

\* C5: every buffer delivered for a capture goes to the callback that was passed
\* to the Start that began it, whatever Start calls were rejected since.
C5_StreamKeepsItsCallback ==
  \A i \in DOMAIN delivered : delivered[i].to = owner

\* C6: a StartCapture entered by a second caller while the first is between its
\* entry check and its return is rejected: it replaces neither callback, pid nor
\* process_capture_ and destroys no tap.
C6_StartRejectedDuringActivation ==
  [][\A a \in StartArgs, o \in MakeOutcomes :
        ReentrantStartCapture(a[1], a[2], o) =>
           UNCHANGED <<callback_, current_pid_, process_capture_, taps>>]_vars

\* C7: a StopCapture on a session that is not capturing returns false and changes
\* nothing: capturing_, process_capture_, callback, pid, the taps and the thread
\* are as before, so that any number of such calls gives the same.
C7_IdleStopNoEffect ==
  [][(~capturing_ /\ StopCapture) =>
        /\ result' = "false"
        /\ pc' = "idle"
        /\ UNCHANGED <<sessionVars, tapVars, threadVars>>]_vars

\* A StopCapture has returned false on an idle session that still holds the tap
\* of a failed start.
C7_Witness ==
  /\ pc = "idle" /\ lastOp = "stop" /\ result = "false"
  /\ ~capturing_
  /\ process_capture_ # NoTap

\* C8: a stopCapture through the bridge with no capture active changes nothing,
\* and no thread-safe function is released more often than it was created.
C8_CallbackReleasedAtMostOnce ==
  [][/\ (~capturing_ /\ BridgeStopCapture) => UNCHANGED tsfn
     /\ \A h \in 1..MaxTsfn : tsfn'[h] # "over_released"]_vars

\* C9: when StartCapture has returned false after getting past its entry check,
\* the tap it made is destroyed, and with it every resource the call acquired.
C9_FailedStartReleasesAll ==
  (BetweenCalls /\ lastOp = "start" /\ result = "false" /\ ~capturing_) =>
     taps[nTaps].state = "destroyed"

\* C10: a tap whose Initialize or Start has returned false has an error message.
C10_FailureSetsError ==
  \A t \in 1..MaxTaps :
     (taps[t].state = "live" /\ taps[t].failure # "none") => taps[t].error_message_ # ""

\* The target pid is absent: no OpenProcess attempt opens it and the snapshot
\* does not list it.
Absent(view) == view.opens = {} /\ view.snapshot # "lists"

C12_TimeoutOnlyAfterWait ==
  [][/\ (pc = "sc_wait" /\ pc' # "sc_wait" /\ ~taps[process_capture_].activate_signaled) =>
          /\ waited >= ActivateTimeoutMs
          /\ result' = "false"
          /\ taps'[process_capture_].failure = "timeout"
          /\ taps'[process_capture_].error_message_ =
                "Timeout waiting for audio interface activation"
     /\ \A t \in 1..MaxTaps :
          (taps'[t].failure = "timeout" /\ taps[t].failure # "timeout") =>
             /\ pc = "sc_wait" /\ t = process_capture_
             /\ waited >= ActivateTimeoutMs
             /\ ~taps[t].activate_signaled]_vars

\* A StartCapture has returned false on the timeout, its activation still pending.
C12_Witness ==
  /\ BetweenCalls /\ lastOp = "start" /\ result = "false"
  /\ process_capture_ # NoTap
  /\ taps[process_capture_].failure = "timeout"
  /\ taps[process_capture_].activation = "pending"
  /\ taps[process_capture_].error_message_ = "Timeout waiting for audio interface activation"

\* C13: an ActivateCompleted that runs after the wait has timed out writes to a
\* tap that still exists: a tap is not destroyed while its completion is still
\* to come or is running.  The audio client such a completion obtains is never
\* started and feeds neither a capture thread nor the callback, and it is
\* released with the tap: a destroyed tap has leaked nothing.
C13_LateCompletionIsDiscarded ==
  \A t \in 1..MaxTaps :
     /\ taps[t].activation \in {"pending", "completed"} => taps[t].state = "live"
     /\ (taps[t].state = "live" /\ taps[t].timed_out) =>
           /\ taps[t].audio_client_ \in {"null", "obtained", "initialized"}
           /\ ~taps[t].is_capturing_
           /\ thread.tap # t
           /\ t = process_capture_ => ~capturing_
     /\ taps[t].state = "destroyed" => taps[t].acq = ZeroCount

\* A tap whose wait timed out has had its completion since, which gave it an
\* audio client and a capture client.
C13_Witness ==
  \E t \in 1..MaxTaps :
     /\ taps[t].state = "live"
     /\ taps[t].timed_out
     /\ taps[t].activation \in {"completed", "released"}
     /\ taps[t].audio_client_ = "initialized"
     /\ taps[t].capture_client_

\* A tap as MakeAndInitialize hands it to StartCapture: both events created and
\* unset, no activation result, no client, no error.
FreshTap(tap) ==
  /\ tap.state = "live"
  /\ tap.target_pid_ = current_pid_
  /\ tap.capture_event_ /\ tap.activate_completed_event_
  /\ ~tap.activate_signaled
  /\ tap.activate_result_ = "E_FAIL"
  /\ tap.activation = "none"
  /\ tap.audio_client_ = "null" /\ ~tap.capture_client_ /\ tap.mix_format_ = NullFormat
  /\ tap.error_message_ = "" /\ tap.failure = "none" /\ ~tap.timed_out
  /\ ~tap.is_capturing_

\* C14: after a StartCapture that failed the session is not capturing, so the
\* next StartCapture is not rejected; and every StartCapture that gets past the
\* entry check activates a tap of its own, which starts with no completion signal,
\* no activation result and no client, and gets them from its own completion
\* only.
C14_RetryStartsAfresh ==
  /\ (BetweenCalls /\ lastOp = "start" /\ result = "false" /\ history = "none") => ~capturing_
  /\ pc = "sc_initialize" => FreshTap(taps[process_capture_])
  /\ pc = "sc_wait" =>
        LET tap == taps[process_capture_] IN
        /\ tap.activation = "pending" =>
              /\ ~tap.activate_signaled
              /\ tap.activate_result_ = "E_FAIL"
              /\ tap.audio_client_ = "null"
        /\ tap.activate_signaled => tap.activation \in {"completed", "released"}

\* A StartCapture has succeeded while the tap of an earlier, timed-out
\* StartCapture is still alive.
C14_Witness ==
  /\ BetweenCalls /\ capturing_ /\ lastOp = "start" /\ result = "true"
  /\ process_capture_ = 2
  /\ taps[1].state = "live" /\ taps[1].timed_out

\* C15: the callback is invoked for the non-silent buffers in the order the
\* device delivered them: the capture thread takes the oldest pending packet,
\* invokes the callback for it at once if it is not silent, and the invocation has
\* returned before the thread goes on to ReleaseBuffer; nothing else invokes the
\* callback, so invocations come one after the other, in increasing order of
\* arrival, each buffer at most once.
C15_CallbacksInDeviceOrder ==
  [][/\ \A i, j \in DOMAIN delivered' : i < j => delivered'[i].id < delivered'[j].id
     /\ \A i \in DOMAIN queue', j \in DOMAIN queue' : i < j => queue'[i].id < queue'[j].id
     /\ \A i \in DOMAIN delivered', j \in DOMAIN queue' :
           delivered'[i].id < queue'[j].id \/ (j = 1 /\ thread'.pc = "release")
     /\ (thread.pc = "drain" /\ thread'.pc = "release") =>
           IF Head(queue).kind = "silent" \/ Head(queue).frames = 0
           THEN delivered' = delivered
           ELSE /\ Len(delivered') = Len(delivered) + 1
                /\ SubSeq(delivered', 1, Len(delivered)) = delivered
                /\ delivered'[Len(delivered')].id = Head(queue).id
     /\ (delivered' # delivered /\ delivered' # <<>>) =>
           /\ thread.pc = "drain" /\ thread'.pc = "release"
           /\ thread'.tap = thread.tap]_vars

\* Two buffers have been handed to the callback, the first delivered first.
C15_Witness ==
  /\ Len(delivered) = 2
  /\ delivered[1].id = 1 /\ delivered[2].id = 2

\* C18: the capture thread ends only at the loop condition and only with the stop
\* flag set: a wait that timed out, a failed GetNextPacketSize, GetBuffer or
\* ReleaseBuffer, and a silent buffer all leave it running, and ProcessAudioData
\* returns to the loop whatever it made of the samples.
C18_ThreadExitsOnlyOnStopFlag ==
  [][/\ (thread'.pc = "exited" /\ thread.pc # "exited") =>
           thread.pc = "loop" /\ ThreadTap.stop_capture_
     /\ (thread.pc \in {"wait", "drain", "release"} /\ thread' # thread) =>
           thread'.pc \in {"loop", "drain", "release"}
     /\ (thread.pc = "loop" /\ ~ThreadTap.stop_capture_) => thread'.pc \in {"loop", "wait"}]_vars

\* The capture thread has ended under a StopCapture after it had delivered a
\* buffer.
C18_Witness ==
  /\ thread.pc = "exited"
  /\ pc = "stop_join"
  /\ delivered # <<>>

\* C20: a buffer the capture thread got from GetBuffer is released before the
\* thread ends or is joined: from holding a buffer the thread goes on only through
\* ReleaseBuffer, the callback invocation is over by then, and neither the end of
\* the thread nor the return of the join falls between GetBuffer and
\* ReleaseBuffer, whenever the stop flag is set.
C20_NoMidBufferCancel ==
  [][/\ thread.pc = "drain" /\ thread' # thread => thread'.pc \in {"release", "loop"}
     /\ thread.pc = "release" /\ thread' # thread =>
           /\ thread'.pc \in {"drain", "loop"}
           /\ queue' = Tail(queue)
     /\ (thread'.pc \in {"exited", "none"} /\ thread' # thread) =>
           thread.pc \in {"loop", "exited"}
     /\ (pc = "stop_join" /\ pc' = "idle") => thread.pc \notin {"drain", "release"}]_vars

\* The stop flag is set while the capture thread holds a buffer it has handed to
\* the callback.
C20_Witness ==
  /\ pc = "stop_join"
  /\ thread.pc = "release"
  /\ ThreadTap.stop_capture_
  /\ delivered # <<>>

\* The capture thread is running.
ThreadRunning == thread.pc \in {"loop", "wait", "drain", "release"}

\* C16: a session has at most one capture thread: none exists while a
\* StartCapture is still activating, so the one AudioTap::Start spawns is the only
\* one, and it is spawned for the tap in process_capture_ after that tap's
\* activation succeeded.  Between calls it is running when the session is
\* capturing, and does not exist when the session is not: after a StopCapture,
\* after a failed StartCapture, after destruction.
C16_OneCaptureThread ==
  /\ pc \in {"sc_initialize", "sc_wait"} => thread = NoThread
  /\ thread.pc # "none" =>
        /\ thread.tap = process_capture_
        /\ taps[thread.tap].state = "live"
        /\ taps[thread.tap].activate_result_ = "S_OK"
  /\ (pc = "idle" /\ capturing_) => ThreadRunning
  /\ (pc = "idle" /\ ~capturing_) => thread = NoThread
  /\ pc = "sc_mark" => ThreadRunning

\* A StartCapture has returned true and the capture thread is in its wait.
C16_Witness ==
  /\ BetweenCalls /\ capturing_ /\ lastOp = "start" /\ result = "true"
  /\ thread.pc = "wait"
  /\ thread.tap = process_capture_

\* C17: while AudioTap::Stop waits for the capture thread, the audio client has
\* already been halted.
C17_ClientHaltedBeforeJoin ==
  (pc = "stop_join" /\ process_capture_ # NoTap) =>
     taps[process_capture_].audio_client_ # "running"

\* C19: once StopCapture has set the stop flag, the capture thread ends and
\* StopCapture returns, whether the thread is in its wait with no event coming or
\* packets are pending (the device delivers finitely many; the threads are
\* scheduled and the callback returns).
C19_StopReturns ==
  (pc = "stop_join") ~> (pc = "idle" /\ thread = NoThread)

\* StopCapture waits for a capture thread that is in its wait with no event set,
\* while a packet is pending.
C19_Witness ==
  /\ pc = "stop_join"
  /\ thread.pc = "wait"
  /\ ~capSignal
  /\ queue # <<>>

\* What the capture thread reads of its tap: the capture client, the audio
\* client, the format block, the callback and the buffer-ready event.
ThreadReads(tap) ==
  <<tap.state, tap.capture_client_, tap.audio_client_ # "null", tap.mix_format_,
    tap.callback_, tap.capture_event_>>

\* C21: while the capture thread is alive nothing resets, frees or reassigns what
\* it reads of its tap: Stop, Cleanup and the destructor get to these members
\* after the join only, and AudioTap::Start has written them by the time it
\* spawns the thread.  From the spawn to the end of the thread function they are
\* set and stay as they are.
C21_ThreadResourcesStable ==
  [][/\ (ThreadRunning /\ thread'.pc # "none") =>
           /\ thread'.tap = thread.tap
           /\ ThreadReads(taps'[thread.tap]) = ThreadReads(taps[thread.tap])
     /\ (ThreadRunning /\ thread'.pc = "none") => FALSE
     /\ (~ThreadRunning /\ thread'.pc = "loop") =>
           LET tap == taps'[thread'.tap] IN
           /\ tap.state = "live"
           /\ tap.capture_client_ /\ tap.audio_client_ # "null"
           /\ tap.capture_event_
           /\ tap.callback_ # NoCallback]_vars

\* The capture thread has ended and StopCapture has not yet come back from the
\* join: the tap still has all the thread read.
C21_Witness ==
  /\ pc = "stop_join"
  /\ thread.pc = "exited"
  /\ taps[thread.tap].state = "live"
  /\ taps[thread.tap].capture_client_
  /\ taps[thread.tap].callback_ # NoCallback
  /\ delivered # <<>>

\* C22: every callback invocation made for a buffer of F frames carries the byte
\* length F * channels * 4 with channels = 2 and sampleRate = 48000; a 480-frame
\* buffer that is not silent gets exactly one invocation, of length 3840.
C22_CallbackCarriesSize ==
  [][/\ (thread.pc = "drain" /\ delivered' # delivered) =>
           LET e == delivered'[Len(delivered')]
               F == Head(queue).frames
           IN /\ Len(delivered') = Len(delivered) + 1
              /\ e.id = Head(queue).id
              /\ e.channels = 2
              /\ e.sampleRate = 48000
              /\ e.length = F * e.channels * 4
     /\ (/\ thread.pc = "drain" /\ thread'.pc = "release"
         /\ Head(queue).kind = "audio" /\ Head(queue).frames = 480) =>
           /\ Len(delivered') = Len(delivered) + 1
           /\ delivered'[Len(delivered')].length = 3840
           /\ delivered'[Len(delivered')].channels = 2
           /\ delivered'[Len(delivered')].sampleRate = 48000]_vars

\* After a StartCapture that returned true the device has delivered one packet,
\* of 480 frames, and the callback has been invoked once, with 3840 bytes.
C22_Witness ==
  /\ capturing_ /\ lastOp = "start" /\ result = "true"
  /\ produced = 1
  /\ thread.pc = "release"
  /\ Head(queue).frames = 480
  /\ Len(delivered) = 1
  /\ delivered[1].length = 3840 /\ delivered[1].channels = 2
  /\ delivered[1].sampleRate = 48000

\* C23: a buffer flagged silent gets no callback invocation and is released all
\* the same; a buffer not flagged silent that has at least one frame gets exactly
\* one invocation, made before its release.  No buffer the thread got from
\* GetBuffer is dropped without release, and the release invokes nothing.
C23_SilentSkippedAudioDelivered ==
  [][/\ (thread.pc = "drain" /\ thread' # thread /\ thread'.pc # "loop") =>
           /\ thread'.pc = "release"
           /\ queue' = queue
           /\ Head(queue).kind = "silent" => delivered' = delivered
           /\ (Head(queue).kind # "silent" /\ Head(queue).frames >= 1) =>
                 /\ Len(delivered') = Len(delivered) + 1
                 /\ SubSeq(delivered', 1, Len(delivered)) = delivered
                 /\ delivered'[Len(delivered')].id = Head(queue).id
     /\ (thread.pc = "release" /\ thread' # thread) =>
           /\ queue' = Tail(queue)
           /\ delivered' = delivered]_vars

\* The first buffer, not silent, has been handed to the callback, and the thread
\* holds the second, silent, for release with no invocation made for it.
C23_Witness ==
  /\ thread.pc = "release"
  /\ Head(queue).kind = "silent"
  /\ Head(queue).id = 2
  /\ Len(delivered) = 1
  /\ delivered[1].id = 1

\* C24: the bridge copies the bytes of a buffer before its capture lambda
\* returns: every call queued for the JavaScript thread reads the copy, and none
\* reads through the pointer the core passed to the lambda, which the core reuses
\* once the lambda has returned.
C24_QueuedCallsReadCopy ==
  [][/\ \A i \in DOMAIN jsQueue' : jsQueue'[i].bytes = "dataCopy"
     /\ JsCall => Head(jsQueue).bytes = "dataCopy"]_vars

\* The arguments are within the bounds: a buffer that is there, of 1 byte to
\* 16 MB, 1 to 32 channels, a rate of 1 to 192000.
InBounds(inv) ==
  /\ inv.data # "null"
  /\ inv.length > 0 /\ inv.length <= 16777216
  /\ inv.channels \in 1..32
  /\ inv.sampleRate \in 1..192000

C26_CoreAppliesBounds ==
  \A i \in DOMAIN delivered :
     /\ delivered[i].length > 0 /\ delivered[i].length <= 16777216
     /\ delivered[i].channels \in 1..32
     /\ delivered[i].sampleRate \in 1..192000

\* C27: IsCapturing only reads: a call changes nothing of the session, its taps,
\* the capture thread or the bridge.  It answers true exactly when the latest
\* StartCapture that returned true has had no StopCapture after it: false on a new
\* session, after a StartCapture that failed on an idle session and after a
\* StopCapture, true after a StartCapture that returned true.
C27_IsCapturingIsPureQuery ==
  [][(IsCapturing \/ BridgeIsCapturing) =>
        /\ UNCHANGED <<sessionVars, tapVars, threadVars, bridgeVars, dataVars, history>>
        /\ pc' = "idle"
        /\ result' = (IF history = "started" THEN "true" ELSE "false")
        /\ lastOp = "none" => result' = "false"
        /\ lastOp \in {"stop", "js_stop"} => result' = "false"
        /\ (lastOp \in {"start", "js_start"} /\ result = "false" /\ history # "started") =>
              result' = "false"
        /\ (lastOp \in {"start", "js_start"} /\ result = "true") => result' = "true"]_vars

\* IsCapturing has answered true on a session whose capture thread runs.
C27_Witness ==
  /\ pc = "idle" /\ lastOp = "is_capturing" /\ result = "true"
  /\ history = "started"
  /\ ThreadRunning

\* C28: the format block of a tap is written by the tap's activation only: by the
\* ActivateCompleted that answers its pending request, and after that only the
\* destructor frees it.  From the spawn of the capture thread to its join the
\* block is there and stays as it is, and the callback invocations made for one
\* capture all carry the channels and the rate of that block.
C28_FormatFixedForTheCapture ==
  [][/\ \A t \in 1..MaxTaps :
           taps'[t].mix_format_ # taps[t].mix_format_ =>
              \/ /\ taps[t].activation = "pending"
                 /\ taps'[t].activation \in {"completed", "released"}
              \/ taps'[t].state = "destroyed"
     /\ (thread.pc # "none" /\ thread'.pc # "none") =>
           /\ taps[thread.tap].mix_format_ # NullFormat
           /\ taps'[thread.tap].mix_format_ = taps[thread.tap].mix_format_
     /\ \A i \in DOMAIN delivered' :
           /\ delivered'[i].channels = taps'[thread'.tap].mix_format_.nChannels
           /\ delivered'[i].sampleRate = taps'[thread'.tap].mix_format_.nSamplesPerSec
           /\ delivered'[i].channels = delivered'[1].channels
           /\ delivered'[i].sampleRate = delivered'[1].sampleRate]_vars

\* Two buffers of different sizes have been handed to the callback in one
\* capture, with the same channels and rate.
C28_Witness ==
  /\ Len(delivered) = 2
  /\ delivered[1].length # delivered[2].length
  /\ delivered[1].channels = delivered[2].channels
  /\ delivered[1].sampleRate = delivered[2].sampleRate
  /\ taps[thread.tap].mix_format_ = RequestedFormat

\* The format is none of those the normalizer converts or copies as its own.
Unexpected(fmt) ==
  /\ ~(fmt.wFormatTag = "IEEE_FLOAT" /\ fmt.wBitsPerSample = 32)
  /\ ~(fmt.wFormatTag = "PCM" /\ fmt.wBitsPerSample \in {16, 32})

\* C29: under a format whose tag and sample width are none of (float, 32),
\* (PCM, 16) and (PCM, 32) the normalizer still hands the buffer to the callback,
\* its sample words taken as floats as they are; it writes its warning at most
\* once, however many buffers and formats follow; and the capture thread goes on
\* to release the buffer and never ends over it.
C29_UnexpectedFormatStillDelivered ==
  [][/\ (/\ thread.pc = "drain" /\ thread'.pc = "release"
         /\ Head(queue).kind = "audio" /\ Head(queue).frames >= 1
         /\ Unexpected(ThreadTap.mix_format_)) =>
           /\ Len(delivered') = Len(delivered) + 1
           /\ delivered'[Len(delivered')].id = Head(queue).id
           /\ delivered'[Len(delivered')].value =
                 [kind |-> "bits", m |-> Head(queue).sample, e |-> 0]
           /\ delivered'[Len(delivered')].length =
                 Head(queue).frames * ThreadTap.mix_format_.nChannels * 4
           /\ warned'
     /\ warnings' >= warnings
     /\ warnings' <= 1
     /\ warnings' > warnings =>
           /\ thread.pc = "drain"
           /\ Unexpected(ThreadTap.mix_format_)
           /\ ~warned
     /\ warned => warned'
     /\ (thread.pc = "drain" /\ thread' # thread) => thread'.pc \in {"release", "loop"}
     /\ thread'.pc # "exited"]_vars

\* Two buffers have been handed to the callback, the second under a format the
\* normalizer does not expect, and one warning has been written.
C29_Witness ==
  /\ thread.pc = "release"
  /\ Len(delivered) = 2
  /\ Unexpected(ThreadTap.mix_format_)
  /\ delivered[2].value.kind = "bits"
  /\ warned
  /\ warnings = 1

\* The way back from a normalized sample: the float times 32768, converted to an
\* integer (towards zero).
Denormalize16(f) ==
  LET x == f.e + 15
      sgn == IF f.m < 0 THEN -1 ELSE 1
  IN IF x >= 0 THEN f.m * Pow2(x) ELSE sgn * (Abs(f.m) \div Pow2(-x))

\* C30: for every 16-bit sample s from -32768 to 32767, what the normalizer makes
\* of s (the float s / 32768) gives s back to within 1 when it is multiplied by
\* 32768 and converted to an integer.
C30_Pcm16RoundTrip ==
  (thread.pc = "release" /\ delivered # <<>>) =>
     LET f == delivered[Len(delivered)].value
         s == Head(queue).sample
     IN /\ f.kind = "value"
        /\ Denormalize16(f) - s \in -1..1

\* The lowest 16-bit sample has been normalized to -32768 * 2^-15, which is -1.
C30_Witness ==
  /\ thread.pc = "release"
  /\ Head(queue).sample = -32768
  /\ Len(delivered) = 1
  /\ delivered[1].value = [kind |-> "value", m |-> -32768, e |-> -15]

\* C31: once StopCapture has returned, the core invokes the callback of that
\* capture no more, whatever was still pending in the device when Stop was
\* called: StopCapture comes back from the join with the capture thread gone,
\* only the capture thread invokes the callback, and while the session is idle
\* and not capturing there is no such thread and no invocation.  The next
\* invocation, if any, is made by the thread of a later StartCapture.
C31_NoCallbackAfterStop ==
  [][/\ (pc = "stop_join" /\ pc' = "idle") =>
           /\ thread' = NoThread
           /\ delivered' = <<>>
     /\ (pc = "idle" /\ ~capturing_ /\ pc' = "idle") =>
           /\ thread = NoThread /\ thread' = NoThread
           /\ delivered' = delivered
     /\ (delivered' # delivered /\ delivered' # <<>>) =>
           /\ thread.pc = "drain"
           /\ ~(pc = "idle" /\ ~capturing_)
           /\ pc \in {"idle", "sc_mark", "stop_signal", "stop_join"}
     /\ (thread.pc = "none" /\ thread'.pc # "none") => (pc = "sc_wait" /\ pc' = "sc_mark")]_vars

\* The capture thread has ended under a StopCapture with a packet still pending
\* in the device and a buffer handed to the callback before: StopCapture is
\* about to come back from the join.
C31_Witness ==
  /\ pc = "stop_join" /\ lastOp = "stop"
  /\ thread.pc = "exited"
  /\ queue # <<>>
  /\ delivered # <<>>

\* C32: COM stays balanced on the control thread: over every sequence of
\* session construction, StartCapture, StopCapture and destruction the program
\* has called CoUninitialize on the thread no more often than CoInitializeEx has
\* succeeded on it, a CoInitializeEx that returned RPC_E_CHANGED_MODE not
\* counted.
C32_ComBalanced ==
  com.uninits <= com.inits

\* C33: an AudioTap tears down only what it started: its destructor runs
\* Cleanup, and with it MFShutdown and CoUninitialize, only on a tap whose
\* Initialize has completed CoInitializeEx and MFStartup with success; not on a
\* tap Initialize was never called on, nor on one whose events could not be
\* created, nor on one whose Initialize failed before MFStartup.
C33_TapTearsDownWhatItStarted ==
  [][\A t \in 1..MaxTaps :
        (taps[t].state # "destroyed" /\ taps'[t].state = "destroyed") =>
           /\ Succeeded(taps[t].co_init)
           /\ taps[t].mf_started]_vars

\* C34: the capture thread never calls into a thread-safe function that has
\* been released: whenever the bridge's lambda is invoked, g_ts_callback is a
\* handle that is acquired and not released, so the call is queued on it; and a
\* handle is released only when no capture thread is left to call it, the join
\* inside the core's StopCapture having come first.
C34_NoCallOnReleasedHandle ==
  [][/\ (delivered' # delivered /\ delivered' # <<>>) =>
           /\ g_ts_callback # NoHandle
           /\ tsfn[g_ts_callback] = "acquired"
           /\ delivered'[Len(delivered')].to = JsFunction(g_ts_callback)
     /\ thread'.pc # "none" =>
           /\ g_ts_callback' # NoHandle
           /\ tsfn'[g_ts_callback'] = "acquired"
     /\ \A h \in 1..MaxTsfn :
           (tsfn[h] = "acquired" /\ tsfn'[h] # "acquired") => thread' = NoThread]_vars

\* stopCapture is waiting for the capture thread, which has just handed a buffer
\* to the lambda: the call was queued on the handle, not yet released.
C34_Witness ==
  /\ pc = "stop_join" /\ lastOp = "js_stop"
  /\ thread.pc = "release"
  /\ ThreadTap.stop_capture_
  /\ delivered # <<>>
  /\ delivered[Len(delivered)].id = Head(queue).id
  /\ jsQueue # <<>>
  /\ tsfn[g_ts_callback] = "acquired"

\* C35: stopCapture on the JavaScript thread does not deadlock with the capture
\* thread: the capture thread never waits inside the lambda for the JavaScript
\* thread (the queue of the thread-safe function has no limit, so BlockingCall
\* returns at once), and so, once stopCapture waits in the join, the capture
\* thread ends, the join completes and stopCapture returns, with no call run by
\* the JavaScript thread in between.
C35_StopCaptureReturns ==
  /\ [](thread.pc # "blocked")
  /\ (pc = "stop_join" /\ lastOp = "js_stop") ~>
        (pc = "idle" /\ lastOp = "js_stop" /\ result = "true" /\ thread = NoThread)

\* stopCapture waits in the join while the capture thread is about to hand a
\* buffer to the lambda, with a call of an earlier buffer still queued for the
\* JavaScript thread.
C35_Witness ==
  /\ pc = "stop_join" /\ lastOp = "js_stop"
  /\ thread.pc = "drain"
  /\ Head(queue).kind = "audio" /\ Head(queue).frames = 480
  /\ jsQueue # <<>>

\* The thread-safe function handles that are acquired and not released.
Unreleased == {h \in 1..MaxTsfn : tsfn[h] = "acquired"}

\* C36: at most one thread-safe function handle made by the bridge's
\* startCapture is acquired and unreleased at any time: startCapture makes no
\* new handle while an earlier one is unreleased, and a startCapture that has
\* returned false has left no acquired handle behind.
C36_OneHandleAtATime ==
  /\ Cardinality(Unreleased) <= 1
  /\ (pc = "idle" /\ lastOp = "js_start" /\ result = "false") => Unreleased = {}

\* C37: once Initialize has returned false with the timeout message, the tap's
\* error message stays the timeout message: an ActivateCompleted that runs late,
\* on a thread of the OS, does not write error_message_.
C37_TimeoutMessageKept ==
  \A t \in 1..MaxTaps :
     (taps[t].state = "live" /\ taps[t].timed_out /\ t = process_capture_) =>
        taps[t].error_message_ = "Timeout waiting for audio interface activation"

\* C38: HasProcessAccess answers true only for a process that can be opened with
\* virtual-memory read access (PROCESS_QUERY_INFORMATION | PROCESS_VM_READ); a
\* process that opens only at a lower level is reported as not accessible.
C38_AccessMeansVmRead ==
  \A p \in pl.granted : "query_vm_read" \in pl.procs[p].opens

\* The list GetProcessList has returned.
Returned == {pl.result[i] : i \in 1..Len(pl.result)}

\* GetProcessList has returned each pid at most once.
ReturnedOnce ==
  \A i, j \in 1..Len(pl.result) : pl.result[i] = pl.result[j] => i = j

\* GetProcessList has returned no process the caller cannot open.
ReturnedOpenable == \A p \in Returned : pl.procs[p].opens # {}

\* GetProcessList has returned no process whose image path is the current
\* process's.
ReturnedOthers == \A p \in Returned : ~pl.procs[p].self

\* C39: GetProcessList returns each pid at most once, never pid 0, never a
\* process the caller cannot open and never a process whose image path equals
\* the current process's path, whatever the active audio sessions.
C39_ListIsCleanOfSelf ==
  pl.phase = "done" =>
    /\ ReturnedOnce
    /\ 0 \notin Returned
    /\ ReturnedOpenable
    /\ ReturnedOthers

\* The audio objects of the process list whose pid is got and is the requested
\* one.
ObjectsOfPid ==
  {o \in AudioObjects :
     /\ \E i \in 1..Len(ao.list) : ao.list[i] = o
     /\ ao.pids[o].status = "noErr"
     /\ ao.pids[o].pid = ao.pid}

\* C40: GetAudioObjectIDForPID(pid) returns kAudioObjectUnknown when pid is 0 or
\* no audio process object of the list has that pid, and otherwise an object of
\* the list whose pid is the requested one: never an object of another process
\* or one whose pid could not be got.
C40_ObjectOfThePid ==
  ao.phase = "done" =>
    IF ao.pid = 0 \/ ObjectsOfPid = {} THEN ao.result = kAudioObjectUnknown
    ELSE ao.result \in ObjectsOfPid

====
